---- MODULE Spec2Model ----
(***************************************************************************)
(* Stock-Scorer: the scoring pipeline (percentile -> metric score ->       *)
(* category score -> contextual adjustment -> final score) and its         *)
(* orchestrator, modelled from src/src/scoring/*.py and                    *)
(* src/src/utils/config.py.                                                *)
(*                                                                         *)
(* Numbers.  Python floats are modelled by exact fixed-point integers:     *)
(*   - percentiles and scores are in milli-points (50.0 points = 50000);   *)
(*   - raw metric values are ordinary integers (their unit is irrelevant   *)
(*     to ranking);                                                        *)
(*   - weights are exact fractions [n, d].                                 *)
(* round(x, k) is modelled as round-half-to-even of the exact value, which *)
(* is what Python's round() does on every value that is exactly            *)
(* representable; binary representation error is not modelled.             *)
(*                                                                         *)
(* Optional[float] is a tagged record: None, Float(v) or NaN.              *)
(***************************************************************************)
EXTENDS Integers, Sequences, FiniteSets, TLC

VARIABLES
    \* ---- PercentileCalculator harness (SpecPct) ----
    value,            \* calculate_percentile's `value` / stock_metrics[metric]
    peer_values,      \* calculate_percentile's `peer_values` (one entry per peer)
    method,           \* tie-breaking method name
    reverse_metrics,  \* calculate_all_percentiles' reverse_metrics
    cleaned,          \* the local list `cleaned` when calculate_percentile returned
    percentile,       \* what calculate_percentile returned
    percentiles,      \* what calculate_all_percentiles returned
    called,           \* the operations invoked so far
    \* ---- MetricScorer + CategoryAggregator harness (SpecAgg) ----
    agg_config,       \* the metrics_config the scorer and aggregator were built with
    agg_category,     \* aggregate_category's `category`
    agg_percentiles,  \* score_all_metrics' `percentiles`
    scored_metrics,   \* what score_all_metrics returned
    category_result,  \* what aggregate_category returned
    agg_pc,           \* "start" -> "scored" -> "aggregated" or "aggregated_all"
    all_category_results, \* what aggregate_all_categories returned
    \* ---- FinalScorer harness (SpecFinal) ----
    shared_weights,   \* the mapping object handed to FinalScorer(...): every
                      \* scorer built from it aliases it as self.category_weights
    fs_count,         \* FinalScorer instances constructed from shared_weights
    fs_raised,        \* whether a constructor call raised
    fs_scores,        \* calculate_final_score's `category_scores` (last call)
    final_result,     \* what calculate_final_score returned (last call)
    \* ---- concurrent scoring runs (SpecConc); they share shared_weights ----
    initial_weights,  \* shared_weights as it was before any run started
    pc,               \* each run's position in score_stock step 7
    run_scores,       \* each run's adjusted category scores
    run_total_weight,     \* each run's local total_weight in __init__
    run_index,       \* each run's position in the loop it is executing
    run_weighted_sum,     \* each run's local run_weighted_sum
    run_weight_used,\* each run's local run_weight_used
    run_result,       \* each run's final_score, once computed
    \* ---- StockScoringEngine.score_stock (SpecEngine) ----
    eng_peer_data,    \* what peer_manager.get_peer_metrics returns
    eng_ticker,       \* the ticker argument of the call
    eng_weights,      \* the caller's custom_weights mapping
    eng_result,       \* what score_stock returned
    eng_pc,           \* "idle", "ready" or "returned"
    \* ---- one call of a method of MetricScorer or ContextualAdjuster ----
    call_fn,          \* the method called
    call_args,        \* its arguments
    call_result,      \* what it returned
    call_pc,          \* "idle", "ready" or "returned"
    \* ---- repeated calls on one set of component instances (SpecRepeat) ----
    configuration,    \* the objects METRICS, CATEGORY_WEIGHTS and THRESHOLDS of
                      \* utils/config.py, which the instances' fields alias
    invocations       \* the calls made so far: method, arguments and result

pctVars == <<value, peer_values, method, reverse_metrics, cleaned, percentile,
             percentiles, called>>
aggVars == <<agg_config, agg_category, agg_percentiles, scored_metrics,
             category_result, agg_pc,
            all_category_results>>

finVars == <<shared_weights, fs_count, fs_raised, fs_scores, final_result>>

concVars == <<initial_weights, pc, run_scores, run_total_weight, run_index,
              run_weighted_sum, run_weight_used, run_result>>

engVars == <<eng_peer_data, eng_ticker, eng_weights, eng_result, eng_pc>>

callVars == <<call_fn, call_args, call_result, call_pc>>

repVars == <<configuration, invocations>>

vars == <<pctVars, aggVars, finVars, concVars, engVars, callVars, repVars>>

----------------------------------------------------------------------------
(* Optional[float]                                                         *)

None == [tag |-> "None"]
NaN == [tag |-> "nan"]
Float(v) == [tag |-> "float", val |-> v]
IsNone(x) == x.tag = "None"
IsFloat(x) == x.tag = "float"

(* One point of a percentile or score, in the model's unit (milli-points). *)
Point == 10 * 100
Pts(p) == p * Point

----------------------------------------------------------------------------
(* Arithmetic helpers                                                      *)

Abs(x) == IF x < 0 THEN 0 - x ELSE x

RECURSIVE SumSeq(_)
SumSeq(s) == IF s = <<>> THEN 0 ELSE Head(s) + SumSeq(Tail(s))

MapSeq(s, F(_)) == IF s = <<>> THEN <<>> ELSE [i \in 1..Len(s) |-> F(s[i])]

RECURSIVE SeqOfSet(_)
SeqOfSet(S) == IF S = {} THEN <<>>
               ELSE LET x == CHOOSE y \in S : TRUE IN <<x>> \o SeqOfSet(S \ {x})

(* The integer nearest to n/d (d > 0), ties to the even integer: the       *)
(* rounding rule of Python's round().                                      *)
RoundHalfEven(n, d) ==
    LET q == n \div d
        r == n % d
    IN  IF 2 * r < d THEN q
        ELSE IF 2 * r > d THEN q + 1
        ELSE IF q % 2 = 0 THEN q ELSE q + 1

(* round(x, 2) and round(x, 1) of x = n/d milli-points, in milli-points.   *)
Round2(n, d) == 10 * RoundHalfEven(n, 10 * d)
Round1(n, d) == 100 * RoundHalfEven(n, 100 * d)

----------------------------------------------------------------------------
(* PercentileCalculator  (src/src/scoring/percentile.py)                   *)

VALID_METHODS == {"rank", "strict", "weak", "mean"}

(* dict.get(key): None when the key is missing.                            *)
Get(d, k) == IF k \in DOMAIN d THEN d[k] ELSE None

InSeq(x, s) == \E i \in 1..Len(s) : s[i] = x

(* Lines 46-50: drop None and non-numeric (NaN) peer entries.              *)
CleanPeerValues(pv) ==
    LET nums == SelectSeq(pv, IsFloat)
    IN  IF nums = <<>> THEN <<>> ELSE [i \in 1..Len(nums) |-> nums[i].val]

(* Lines 56-58: `if value not in cleaned: cleaned.append(float(value))`.   *)
PoolAlwaysAppend(v, c) == Append(c, v)
PoolNeverAppend(v, c) == c
PoolOf(v, c) == IF InSeq(v, c) THEN c ELSE Append(c, v)

CountBelow(a, score) == Cardinality({i \in 1..Len(a) : a[i] < score})
CountAtOrBelow(a, score) == Cardinality({i \in 1..Len(a) : a[i] =< score})

(* scipy.stats.percentileofscore(a, score, kind), as the fraction          *)
(* <<numerator, denominator>> of a percentage in points.                   *)
PercentileOverPeersOnly(a, score, kind) ==
    LET left == CountBelow(a, score)
        right == CountAtOrBelow(a, score)
    IN  <<(left + right + (IF left < right THEN 1 ELSE 0)) * 50, Len(a) - 1>>
PercentileOfScoreMeanForRank(a, score, kind) ==
    <<(CountBelow(a, score) + CountAtOrBelow(a, score)) * 50, Len(a)>>
percentileofscore(a, score, kind) ==
    LET left == CountBelow(a, score)
        right == CountAtOrBelow(a, score)
        n == Len(a)
    IN  CASE kind = "rank" ->
                <<(left + right + (IF left < right THEN 1 ELSE 0)) * 50, n>>
          [] kind = "strict" -> <<left * 100, n>>
          [] kind = "weak" -> <<right * 100, n>>
          [] kind = "mean" -> <<(left + right) * 50, n>>

(* The local list `cleaned` as it stands when calculate_percentile         *)
(* returns: never built on the first two early returns.                    *)
CleanedAtReturn(v, pv) ==
    IF IsNone(v) \/ pv = <<>> THEN <<>>
    ELSE LET c == CleanPeerValues(pv)
         IN  IF Len(c) < 1 THEN c ELSE PoolOf(v.val, c)

(* Line 60: `if len(cleaned) < 2`.                                        *)
MinPool == 2

calculate_percentile(v, pv, m) ==
    IF IsNone(v) THEN None
    ELSE IF pv = <<>> THEN None
    ELSE LET c == CleanPeerValues(pv)
         IN  IF Len(c) < 1 THEN None
             ELSE LET pool == PoolOf(v.val, c)
                      kind == IF m \notin VALID_METHODS THEN "rank" ELSE m
                  IN  IF Len(pool) < MinPool THEN None
                      ELSE LET f == percentileofscore(pool, v.val, kind)
                           IN  Float(Round2(f[1] * Point, f[2]))

(* Lines 130-134: reverse the percentile of a lower-is-better metric.      *)
KeepPercentile(p) == p
ReversePercentile(p) == Pts(100) - p

Range(s) == {s[i] : i \in 1..Len(s)}

calculate_all_percentiles(stock_metrics, peer_metrics, metric_names, m, reverse) ==
    [metric \in Range(metric_names) |->
        LET stock_value == Get(stock_metrics, metric)
            present(peer) == ~IsNone(Get(peer, metric))
            peers == SelectSeq(peer_metrics, present)
            pv == IF peers = <<>> THEN <<>>
                  ELSE [i \in 1..Len(peers) |-> Get(peers[i], metric)]
        IN  IF IsNone(stock_value) THEN None
            ELSE IF Len(pv) < 1 THEN None
            ELSE LET p == calculate_percentile(stock_value, pv, m)
                 IN  IF IsNone(p) THEN None
                     ELSE IF metric \in reverse
                          THEN Float(Round2(ReversePercentile(p.val), 1))
                          ELSE Float(Round2(p.val, 1))]

----------------------------------------------------------------------------
(* Configuration  (src/src/utils/config.py)                                *)
(*                                                                         *)
(* A Python dict is modelled as [order |-> <<keys in insertion order>>,    *)
(* at |-> [key |-> value]].  Weights are in hundredths (0.40 = 40); a      *)
(* weight written as a string in the source stays a string here; category *)
(* weights are exact fractions <<n, d>> (0.30 = <<3, 10>>).                *)

Str(t) == [tag |-> "str", text |-> t]

Dict(keys, f) == [order |-> keys, at |-> f]
GetOr(rec, k, default) == IF k \in DOMAIN rec THEN rec[k] ELSE default

CATEGORY_WEIGHTS ==
    Dict(<<"valuation", "growth", "profitability", "risk">>,
         [valuation |-> <<3, 10>>, growth |-> <<1, 4>>,
          profitability |-> <<1, 4>>, risk |-> <<1, 5>>])

METRICS ==
    Dict(<<"valuation", "growth", "profitability", "risk">>,
      [valuation |->
          Dict(<<"pe_ratio", "peg_ratio", "price_to_fcf">>,
            [pe_ratio |-> [weight |-> Float(40), lower_is_better |-> TRUE,
                           display_name |-> "P/E Ratio"],
             peg_ratio |-> [weight |-> Float(35), lower_is_better |-> TRUE,
                            display_name |-> "PEG Ratio"],
             price_to_fcf |-> [weight |-> Float(25), lower_is_better |-> TRUE,
                               display_name |-> "Price/FCF"]]),
       growth |->
          Dict(<<"revenue_growth", "eps_growth">>,
            [revenue_growth |-> [weight |-> Float(50), lower_is_better |-> FALSE,
                                 display_name |-> "revenue growth"],
             eps_growth |-> [weight |-> Float(50), lower_is_better |-> FALSE,
                             display_name |-> "EPS growth"]]),
       profitability |->
          Dict(<<"roe", "operating_margin", "net margin">>,
            ("roe" :> [weight |-> Float(40), lower_is_better |-> FALSE,
                       display_name |-> "ROE"]) @@
            ("operating_margin" :> [weight |-> Float(30), lower_is_better |-> FALSE,
                                    dsiplay_name |-> "Operating Margin"]) @@
            ("net margin" :> [weight |-> Float(30), lower_is_better |-> FALSE,
                              display_name |-> "Net Margin"])),
       risk |->
          Dict(<<"debt_to_equity", "current_ratio", "beta">>,
            [debt_to_equity |-> [weight |-> Float(40), lower_is_better |-> TRUE,
                                 display_name |-> "Debt/Equity"],
             current_ratio |-> [weight |-> Str("0.30"), lower_is_better |-> FALSE,
                                display_name |-> "Current Ratio"],
             beta |-> [weight |-> Float(30), lower_is_better |-> TRUE,
                       display_name |-> "beta"]])])

----------------------------------------------------------------------------
(* MetricScorer  (src/src/scoring/metric_scorer.py)                        *)

ScoreNeverInverted(metrics_config, p, metric_name, category) ==
    IF IsNone(p) THEN None ELSE Float(Round2(p.val, 1))
score_from_percentile(metrics_config, p, metric_name, category) ==
    IF IsNone(p) THEN None
    ELSE LET known == /\ category \in DOMAIN metrics_config.at
                      /\ metric_name \in DOMAIN metrics_config.at[category].at
             lower_is_better ==
                 IF known
                 THEN GetOr(metrics_config.at[category].at[metric_name],
                            "lower_is_better", FALSE)
                 ELSE FALSE
             score == IF lower_is_better THEN Pts(100) - p.val ELSE p.val
         IN  Float(Round2(score, 1))

(* The category whose loop iteration writes scored_metrics[metric_name]    *)
(* last: the last configured category that defines the metric.             *)
LastCategoryOf(metrics_config, metric_name) ==
    LET idx == {i \in 1..Len(metrics_config.order) :
                  metric_name \in DOMAIN metrics_config.at[metrics_config.order[i]].at}
        last == CHOOSE i \in idx : \A j \in idx : j =< i
    IN  metrics_config.order[last]

ConfiguredMetricNames(metrics_config) ==
    UNION {DOMAIN metrics_config.at[c].at : c \in DOMAIN metrics_config.at}

(* Lines 129-138: the entry of a metric whose percentile is absent.        *)
AbsentEntryScoreZero(category, metric_info, metric_name) ==
    [percentile |-> None, score |-> Float(0), category |-> category,
     weight |-> GetOr(metric_info, "weight", Float(0)),
     lower_is_better |-> GetOr(metric_info, "lower_is_better", FALSE),
     display_name |-> GetOr(metric_info, "display_name", metric_name)]
AbsentEntry(category, metric_info, metric_name) ==
    [percentile |-> None, score |-> None, category |-> category,
     weight |-> GetOr(metric_info, "weight", Float(0)),
     lower_is_better |-> GetOr(metric_info, "lower_is_better", FALSE),
     display_name |-> GetOr(metric_info, "display_name", metric_name)]

score_all_metrics(metrics_config, pcts) ==
    [metric_name \in ConfiguredMetricNames(metrics_config) \cap DOMAIN pcts |->
        LET category == LastCategoryOf(metrics_config, metric_name)
            metric_info == metrics_config.at[category].at[metric_name]
            p == pcts[metric_name]
        IN  IF IsNone(p) THEN AbsentEntry(category, metric_info, metric_name)
            ELSE
            [percentile |-> p,
             score |-> score_from_percentile(metrics_config, p, metric_name,
                                             category),
             category |-> category,
             weight |-> GetOr(metric_info, "weight", Float(0)),
             lower_is_better |-> GetOr(metric_info, "lower_is_better", FALSE),
             display_name |-> GetOr(metric_info, "display_name", metric_name)]]

----------------------------------------------------------------------------
(* CategoryAggregator  (src/src/scoring/category_aggregator.py)            *)

(* float(text) for the weight strings that occur; any other text raises    *)
(* ValueError.                                                             *)
ParsesAsFloat(text) == text \in {"0.30", "0"}
ParseFloat(text) == CASE text = "0.30" -> 30 [] text = "0" -> 0

(* Lines 67-72: weight = float(weight), 0.0 on ValueError or TypeError.    *)
WeightAsFloat(w) ==
    CASE w.tag = "float" -> w.val
      [] w.tag = "str" -> IF ParsesAsFloat(w.text) THEN ParseFloat(w.text) ELSE 0
      [] OTHER -> 0

SumOver(s, F(_)) == SumSeq(MapSeq(s, F))

(* Line 94: total_available_weight = sum(m['weight'] for m in available).  *)
TotalConfiguredWeight(available, category_config) ==
    LET w(name) == WeightAsFloat(GetOr(category_config.at[name], "weight", Float(0)))
    IN  SumOver(category_config.order, w)
TotalAvailableWeight(available, category_config) ==
    LET w(m) == m.weight IN SumOver(available, w)

(* Line 106: adjusted_weight = weight / total_available_weight, kept as    *)
(* the exact fraction <<numerator, denominator>>.                          *)
AdjustedWeightUnnormalized(weight, total) == <<weight, 100>>
AdjustedWeight(weight, total) == <<weight, total>>

(* Lines 54-56: the category is not configured (or configured empty).     *)
UnknownCategory == [score |-> None, metrics |-> <<>>, missing_metrics |-> <<>>]

(* Lines 96-102: the weights of the available metrics total zero.          *)
ZeroTotalWeightScoreZero(available_metrics, missing_metrics) ==
    [score |-> Float(0), metrics |-> available_metrics,
     missing_metrics |-> missing_metrics]
ZeroTotalWeight(available_metrics, missing_metrics) ==
    [score |-> None, metrics |-> available_metrics,
     missing_metrics |-> missing_metrics]

(* Lines 85-91: no metric of the category has a score.                     *)
NoValidMetricsScoreZero(missing_metrics) ==
    [score |-> Float(0), metrics |-> <<>>, missing_metrics |-> missing_metrics]
NoValidMetrics(missing_metrics) ==
    [score |-> None, metrics |-> <<>>, missing_metrics |-> missing_metrics]

aggregate_category(metrics_config, category, metric_scores) ==
    LET category_config ==
            IF category \in DOMAIN metrics_config.at
            THEN metrics_config.at[category] ELSE Dict(<<>>, <<>>)
    IN  IF category_config.order = <<>>
        THEN UnknownCategory
        ELSE
        LET has_score(name) ==
                /\ name \in DOMAIN metric_scores
                /\ ~IsNone(metric_scores[name].score)
            lacks_score(name) == ~has_score(name)
            entry(name) ==
                [name |-> name,
                 score |-> metric_scores[name].score.val,
                 weight |-> WeightAsFloat(GetOr(category_config.at[name], "weight",
                                                Float(0))),
                 percentile |-> metric_scores[name].percentile,
                 display_name |-> GetOr(category_config.at[name], "display_name",
                                        name)]
            available_metrics == MapSeq(SelectSeq(category_config.order, has_score),
                                        entry)
            missing_metrics == SelectSeq(category_config.order, lacks_score)
        IN  IF available_metrics = <<>>
            THEN NoValidMetrics(missing_metrics)
            ELSE
            LET total == TotalAvailableWeight(available_metrics, category_config)
                adjust(m) ==
                    [name |-> m.name, score |-> m.score, weight |-> m.weight,
                     percentile |-> m.percentile, display_name |-> m.display_name,
                     adjusted_weight |-> AdjustedWeight(m.weight, total)]
                adjusted == MapSeq(available_metrics, adjust)
                \* sum(score * adjusted_weight): every adjusted weight has the
                \* denominator `total`, so the sum is weighted / total.
                numer(m) == m.score * m.adjusted_weight[1]
            IN  IF total = 0
                THEN ZeroTotalWeight(available_metrics, missing_metrics)
                ELSE [score |-> Float(Round2(SumOver(adjusted, numer),
                                             adjusted[1].adjusted_weight[2])),
                      metrics |-> adjusted,
                      missing_metrics |-> missing_metrics]

aggregate_all_categories(metrics_config, metric_scores) ==
    [category \in DOMAIN metrics_config.at |->
        aggregate_category(metrics_config, category, metric_scores)]

----------------------------------------------------------------------------
(* FinalScorer  (src/src/scoring/final_scorer.py)                          *)
(*                                                                         *)
(* A weight is the exact fraction <<n, d>> in lowest terms with d > 0.     *)

RECURSIVE GCD(_, _)
GCD(a, b) == IF b = 0 THEN a ELSE GCD(b, a % b)

Frac(n, d) ==
    LET g == GCD(Abs(n), Abs(d))
        sgn == IF d < 0 THEN 0 - 1 ELSE 1
    IN  IF n = 0 THEN <<0, 1>> ELSE <<sgn * (n \div g), sgn * (d \div g)>>
LCM(a, b) == (a \div GCD(a, b)) * b
FAdd(a, b) ==
    LET l == LCM(a[2], b[2])
    IN  Frac(a[1] * (l \div a[2]) + b[1] * (l \div b[2]), l)
FMul(a, b) ==
    LET x == Frac(a[1], b[2])
        y == Frac(b[1], a[2])
    IN  <<x[1] * y[1], x[2] * y[2]>>
FDiv(a, b) == FMul(a, Frac(b[2], b[1]))
FLess(a, b) == a[1] * b[2] < b[1] * a[2]
FInt(k) == <<k, 1>>

RECURSIVE FSum(_)
FSum(fs) == IF fs = <<>> THEN FInt(0) ELSE FAdd(Head(fs), FSum(Tail(fs)))

(* Line 43: the tolerance 0.99 <= total_weight <= 1.01.                    *)
ToleranceLow == <<99, 100>>
ToleranceHigh == <<101, 100>>
WithinTolerance(total) == ~FLess(total, ToleranceLow) /\ ~FLess(ToleranceHigh, total)

(* Line 42: total_weight = sum(self.category_weights.values()).            *)
TotalWeight(category_weights) ==
    LET w(cat) == category_weights.at[cat] IN FSum(MapSeq(category_weights.order, w))

(* Lines 43-50: the constructor raises ZeroDivisionError on the first      *)
(* `/=` when the weights sum to zero.                                      *)
ConstructorRaises(category_weights) ==
    /\ category_weights.order # <<>>
    /\ TotalWeight(category_weights) = FInt(0)

(* Lines 39-50: the mapping as FinalScorer.__init__ leaves it.             *)
NormalizeAlways(category_weights) ==
    Dict(category_weights.order,
         [cat \in DOMAIN category_weights.at |->
             FDiv(category_weights.at[cat], TotalWeight(category_weights))])
NormalizeWeights(category_weights) ==
    LET total_weight == TotalWeight(category_weights)
    IN  IF WithinTolerance(total_weight) THEN category_weights
        ELSE Dict(category_weights.order,
                  [cat \in DOMAIN category_weights.at |->
                      FDiv(category_weights.at[cat], total_weight)])

NeutralScoreZero == Pts(0)

(* Line 82: the neutral score that replaces an absent category score.      *)
NeutralScore == Pts(50)

HalfTheWeightUsed(category_weights, category_scores) ==
    FMul(TotalWeight(category_weights), <<1, 2>>)

(* Lines 72, 74 and 86: `total_weight_used += weight` runs once for every  *)
(* category of the weight mapping, after an absent score was replaced.     *)
total_weight_used(category_weights, category_scores) ==
    LET w(cat) == category_weights.at[cat]
    IN  FSum(MapSeq(category_weights.order, w))

(* Lines 69-108.  `warnings` lists, in order, the categories whose absent  *)
(* score was replaced and then "normalized" if the rescaling step ran.     *)
calculate_final_score(category_weights, category_scores) ==
    LET given(cat) == Get(category_scores, cat)
        score(cat) == IF IsNone(given(cat)) THEN NeutralScore ELSE given(cat).val
        contribution(cat) == FMul(category_weights.at[cat], FInt(score(cat)))
        absent(cat) == IsNone(given(cat))
        missing(cat) == [kind |-> "missing", category |-> cat]
        weighted_sum == FSum(MapSeq(category_weights.order, contribution))
        weight_used == total_weight_used(category_weights, category_scores)
        rescale == FLess(weight_used, ToleranceLow)
        final_sum == IF rescale THEN FDiv(weighted_sum, weight_used)
                     ELSE weighted_sum
    IN  [final_score |-> Round1(final_sum[1], final_sum[2]),
         breakdown |-> [cat \in DOMAIN category_weights.at |->
                          [score |-> score(cat),
                           weight |-> category_weights.at[cat],
                           contribution |-> contribution(cat)]],
         warnings |-> MapSeq(SelectSeq(category_weights.order, absent), missing)
                      \o (IF rescale THEN <<[kind |-> "normalized"]>> ELSE <<>>)]


InterpretExclusive(score) ==
    IF score > Pts(80) THEN [rating |-> "Excellent"]
    ELSE IF score > Pts(65) THEN [rating |-> "Good"]
    ELSE IF score > Pts(50) THEN [rating |-> "Average"]
    ELSE IF score > Pts(35) THEN [rating |-> "Below Average"]
    ELSE [rating |-> "Poor"]

(* Lines 124-153.                                                          *)
interpret_score(score) ==
    IF score >= Pts(80)
    THEN [rating |-> "Excellent",
          description |-> "Strong fundamentals across all categories",
          action |-> "Strong buy candidate - consider for portfolio"]
    ELSE IF score >= Pts(65)
    THEN [rating |-> "Good",
          description |-> "Solid fundamentals with some strengths",
          action |-> "Buy candidate - monitor key metrics"]
    ELSE IF score >= Pts(50)
    THEN [rating |-> "Average",
          description |-> "Mixed fundamentals",
          action |-> "Hold or further research - compare alternatives"]
    ELSE IF score >= Pts(35)
    THEN [rating |-> "Below Average",
          description |-> "Concerning fundamentals",
          action |-> "Avoid unless deep value opportunity"]
    ELSE [rating |-> "Poor",
          description |-> "Weak fundamentals across categories",
          action |-> "Avoid - high risk of underperformance"]

----------------------------------------------------------------------------
(* ContextualAdjuster  (src/src/scoring/adjustments.py)                    *)
(*                                                                         *)
(* Raw metric values are in hundredths (a debt/equity of 2.0 is 200, a     *)
(* revenue growth of 0.30 is 30); scores stay in thousandths of a point.   *)
(* An explanation string is modelled by the record of what it reports.    *)

THRESHOLDS ==
    [high_debt |-> 200, weak_liquidity |-> 120, extreme_pe |-> 10000,
     negative_growth |-> 0 - 5, min_peer_count |-> 5]

Min(a, b) == IF a < b THEN a ELSE b
Max(a, b) == IF a > b THEN a ELSE b

ValuationFullBonus(valuation_score, growth_score, raw_metrics) ==
    IF valuation_score < Pts(50) /\ growth_score > Pts(70)
    THEN LET adjustment == Min(growth_score - Pts(70), Pts(20))
         IN  <<Min(valuation_score + adjustment, Pts(100)),
               [tag |-> "str", kind |-> "valuation_for_growth", adjustment |-> adjustment]>>
    ELSE <<valuation_score, None>>
RiskWithoutFloor(risk_score, raw_metrics) ==
    LET debt_to_equity == Get(raw_metrics, "debt_to_equity")
        current_ratio == Get(raw_metrics, "current_ratio")
    IN  IF IsNone(debt_to_equity) \/ IsNone(current_ratio)
        THEN <<risk_score, None>>
        ELSE IF debt_to_equity.val > 200 /\ current_ratio.val < 120
        THEN <<risk_score - Pts(25),
               [tag |-> "str", kind |-> "risk_for_liquidity", adjustment |-> Pts(25)]>>
        ELSE <<risk_score, None>>
NoValuationAdjustment(valuation_score, growth_score, raw_metrics) ==
    <<valuation_score, None>>
NoRiskAdjustment(risk_score, raw_metrics) == <<risk_score, None>>
NoProfitabilityAdjustment(profitability_score, growth_score, raw_metrics) ==
    <<profitability_score, None>>

(* Lines 56-74.  (growth_score - 70) * 0.5 is exact: a category score has  *)
(* two decimals.                                                           *)
adjust_valuation_for_growth(valuation_score, growth_score, raw_metrics) ==
    IF valuation_score < Pts(50) /\ growth_score > Pts(70)
    THEN LET adjustment == Min((growth_score - Pts(70)) \div 2, Pts(20))
         IN  <<Min(valuation_score + adjustment, Pts(100)),
               [tag |-> "str", kind |-> "valuation_for_growth", adjustment |-> adjustment]>>
    ELSE <<valuation_score, None>>

(* Lines 94-124.  severity * 10 points, with both factors in hundredths,   *)
(* is their product in thousandths of a point.                             *)
adjust_risk_for_liquidity(risk_score, raw_metrics) ==
    LET debt_to_equity == Get(raw_metrics, "debt_to_equity")
        current_ratio == Get(raw_metrics, "current_ratio")
    IN  IF IsNone(debt_to_equity) \/ IsNone(current_ratio)
        THEN <<risk_score, None>>
        ELSE IF /\ debt_to_equity.val > THRESHOLDS.high_debt
                /\ current_ratio.val < THRESHOLDS.weak_liquidity
        THEN LET severity == (debt_to_equity.val - THRESHOLDS.high_debt)
                             * (THRESHOLDS.weak_liquidity - current_ratio.val)
                 adjustment == Min(severity, Pts(25))
             IN  <<Max(risk_score - adjustment, 0),
                   [tag |-> "str", kind |-> "risk_for_liquidity", adjustment |-> adjustment]>>
        ELSE <<risk_score, None>>

(* Lines 146-168.  revenue_growth * 30 points = 300 thousandths of a point *)
(* per hundredth of growth.                                                *)
adjust_profitability_for_growth_stage(profitability_score, growth_score, raw_metrics) ==
    LET revenue_growth == Get(raw_metrics, "revenue_growth")
    IN  IF IsNone(revenue_growth)
        THEN <<profitability_score, None>>
        ELSE IF profitability_score < Pts(40) /\ revenue_growth.val > 30
        THEN LET adjustment == Min(revenue_growth.val * 300, Pts(15))
             IN  <<Min(profitability_score + adjustment, Pts(100)),
                   [tag |-> "str", kind |-> "profitability_for_growth_stage",
                    adjustment |-> adjustment]>>
        ELSE <<profitability_score, None>>

(* Lines 192-195: data['score'] if data['score'] is not None else 50.      *)
RawScoreOrZero(data) == IF IsNone(data.score) THEN 0 ELSE data.score.val
RawScoreOf(data) == IF IsNone(data.score) THEN Pts(50) ELSE data.score.val

(* Lines 188-232.  adjusted is built in the order valuation, risk,         *)
(* profitability, growth.                                                  *)
apply_all_adjustments(category_scores, raw_metrics) ==
    LET raw_scores == [cat \in DOMAIN category_scores |->
                         RawScoreOf(category_scores[cat])]
        val == adjust_valuation_for_growth(GetOr(raw_scores, "valuation", Pts(50)),
                                           GetOr(raw_scores, "growth", Pts(50)),
                                           raw_metrics)
        risk == adjust_risk_for_liquidity(GetOr(raw_scores, "risk", Pts(50)),
                                          raw_metrics)
        prof == adjust_profitability_for_growth_stage(
                    GetOr(raw_scores, "profitability", Pts(50)),
                    GetOr(raw_scores, "growth", Pts(50)), raw_metrics)
        given(e) == ~IsNone(e)
    IN  [adjusted_scores |->
            Dict(<<"valuation", "risk", "profitability", "growth">>,
                 [valuation |-> val[1], risk |-> risk[1],
                  profitability |-> prof[1],
                  growth |-> GetOr(raw_scores, "growth", Pts(50))]),
         adjustments_made |-> SelectSeq(<<val[2], risk[2], prof[2]>>, given)]

----------------------------------------------------------------------------
(* StockScoringEngine  (src/src/scoring/engine.py)                         *)
(*                                                                         *)
(* peer_data, the mapping ticker -> StockMetrics that the peer manager     *)
(* returns, is a sequence of StockMetrics records in insertion order, each *)
(* carrying its ticker.                                                    *)

MetricFields ==
    <<"pe_ratio", "peg_ratio", "price_to_fcf", "revenue_growth", "eps_growth",
      "roe", "operating_margin", "net_margin", "debt_to_equity",
      "current_ratio", "beta">>

(* str.upper() on the tickers that occur.                                  *)
Upper(t) == CASE t = "aapl" -> "AAPL" [] OTHER -> t

HasTicker(peer_data, t) == \E i \in 1..Len(peer_data) : peer_data[i].ticker = t
Lookup(peer_data, t) ==
    peer_data[CHOOSE i \in 1..Len(peer_data) : peer_data[i].ticker = t]

_metrics_to_dict(metrics) == [k \in Range(MetricFields) |-> metrics[k]]

RECURSIVE Flatten(_)
Flatten(ss) == IF ss = <<>> THEN <<>> ELSE Head(ss) \o Flatten(Tail(ss))

_get_all_metric_names ==
    LET keys(category) == METRICS.at[category].order
    IN  Flatten(MapSeq(METRICS.order, keys))

(* Lines 71-77.                                                            *)
REVERSE_METRICS == {"pe_ratio", "peg_ratio", "price_to_fcf", "debt_to_equity", "beta"}

(* str.lower() on the rating names.                                        *)
Lower(t) ==
    CASE t = "Excellent" -> "excellent"
      [] t = "Good" -> "good"
      [] t = "Average" -> "average"
      [] t = "Below Average" -> "below average"
      [] t = "Poor" -> "poor"
      [] OTHER -> t

(* Lines 175-198: the rating, in lower case as the summary text shows it,  *)
(* and the first category with the highest score; the text shows that      *)
(* score with no decimals.                                                 *)
_generate_basic_summary(t, final_score, category_scores) ==
    LET rating == IF final_score >= Pts(80) THEN "Excellent"
                  ELSE IF final_score >= Pts(65) THEN "Good"
                  ELSE IF final_score >= Pts(50) THEN "Average"
                  ELSE IF final_score >= Pts(35) THEN "Below Average"
                  ELSE "Poor"
        order == category_scores.order
        best == CHOOSE i \in 1..Len(order) :
                    /\ \A j \in 1..Len(order) :
                           category_scores.at[order[j]] =< category_scores.at[order[i]]
                    /\ \A j \in 1..(i - 1) :
                           category_scores.at[order[j]] < category_scores.at[order[i]]
    IN  [ticker |-> t, rating |-> Lower(rating), final_score |-> final_score,
         best_category |-> order[best],
         best_score |-> Point * RoundHalfEven(category_scores.at[order[best]], Point)]

(* Field constraints of MetricScore, CategoryScore and ScoringResult       *)
(* (src/src/utils/models.py lines 57-88).                                  *)
InUnitPercent(x) == 0 =< x /\ x =< Pts(100)
ValidMetricScore(m) ==
    /\ IsNone(m.percentile) \/ InUnitPercent(m.percentile.val)
    /\ IsNone(m.score) \/ InUnitPercent(m.score.val)
ValidCategoryScore(c) ==
    /\ InUnitPercent(c.score)
    /\ ~FLess(c.weight, FInt(0)) /\ ~FLess(FInt(1), c.weight)
    /\ \A i \in 1..Len(c.metric_scores) : ValidMetricScore(c.metric_scores[i])
ValidScoringResult(r) ==
    /\ InUnitPercent(r.final_score)
    /\ \A cat \in DOMAIN r.category_scores : ValidCategoryScore(r.category_scores[cat])

(* Lines 215-254.  The weight reported for a category is the engine's own  *)
(* final_scorer's.  A constraint violated raises ValidationError.          *)
_build_result(t, final_score, category_results, adjusted_scores, metric_scores, summary, adjustments_made, peer_count, stock_dict, pcts) ==
    LET metric_score_obj(metric_info) ==
            [metric_name |-> metric_info.name,
             raw_value |-> Get(stock_dict, metric_info.name),
             percentile |-> Get(pcts, metric_info.name),
             score |-> Float(metric_info.score),
             peer_median |-> None]
        result ==
            [tag |-> "ScoringResult",
             ticker |-> t,
             final_score |-> final_score,
             category_scores |->
                [cat_name \in DOMAIN category_results |->
                    [category |-> cat_name,
                     score |-> adjusted_scores.at[cat_name],
                     weight |-> CATEGORY_WEIGHTS.at[cat_name],
                     metric_scores |-> MapSeq(category_results[cat_name].metrics,
                                              metric_score_obj)]],
             strengths |-> <<>>,
             weaknesses |-> <<>>,
             warnings |-> adjustments_made,
             summary |-> summary,
             peer_count |-> peer_count]
    IN  IF ValidScoringResult(result) THEN result ELSE [tag |-> "raise"]

(* Steps 2-4 (lines 60-90): the subject's percentiles and metric scores.   *)
EnginePercentiles(stock_metrics, peer_data) ==
    calculate_all_percentiles(_metrics_to_dict(stock_metrics),
                              MapSeq(peer_data, _metrics_to_dict),
                              _get_all_metric_names, "rank", REVERSE_METRICS)

(* Step 5 (lines 92-96).                                                   *)
EngineCategoryResults(stock_metrics, peer_data) ==
    aggregate_all_categories(METRICS,
        score_all_metrics(METRICS, EnginePercentiles(stock_metrics, peer_data)))

(* Lines 40-145.  Returns what the caller receives and what the caller's   *)
(* custom_weights mapping holds afterwards; None and an empty mapping are    *)
(* both the empty Dict.  Any exception becomes None.                       *)
score_stock(given_ticker, peer_data, custom_weights) ==
    LET t == Upper(given_ticker)
    IN  IF ~HasTicker(peer_data, t)
        THEN [returned |-> None, custom_weights |-> custom_weights]
        ELSE
        LET stock_metrics == Lookup(peer_data, t)
            stock_dict == _metrics_to_dict(stock_metrics)
            pcts == EnginePercentiles(stock_metrics, peer_data)
            metric_scores == score_all_metrics(METRICS, pcts)
            category_results == aggregate_all_categories(METRICS, metric_scores)
            adjustment_result == apply_all_adjustments(category_results, stock_dict)
            adjusted_scores == adjustment_result.adjusted_scores
            use_custom == custom_weights.order # <<>>
        IN  IF use_custom /\ ConstructorRaises(custom_weights)
            THEN [returned |-> None, custom_weights |-> custom_weights]
            ELSE
            LET weights == IF use_custom THEN NormalizeWeights(custom_weights)
                           ELSE CATEGORY_WEIGHTS
                scores == [cat \in DOMAIN adjusted_scores.at |->
                              Float(adjusted_scores.at[cat])]
                final_score == calculate_final_score(weights, scores).final_score
                summary == _generate_basic_summary(t, final_score, adjusted_scores)
                result == _build_result(t, final_score, category_results,
                                        adjusted_scores, metric_scores, summary,
                                        adjustment_result.adjustments_made,
                                        Len(peer_data), stock_dict, pcts)
            IN  [returned |-> IF result.tag = "raise" THEN None ELSE result,
                 custom_weights |-> IF use_custom THEN weights ELSE custom_weights]

----------------------------------------------------------------------------
(* The state of a harness that a specification does not exercise.         *)

PctIdle ==
    /\ value = None
    /\ peer_values = <<>>
    /\ method = "rank"
    /\ reverse_metrics = {}
    /\ cleaned = <<>>
    /\ percentile = None
    /\ percentiles = <<>>
    /\ called = {}

AggIdle ==
    /\ agg_config = METRICS
    /\ agg_category = "valuation"
    /\ agg_percentiles = <<>>
    /\ scored_metrics = <<>>
    /\ category_result = <<>>
    /\ agg_pc = "idle"
    /\ all_category_results = <<>>

FinIdle ==
    /\ shared_weights = CATEGORY_WEIGHTS
    /\ fs_count = 0
    /\ fs_raised = FALSE
    /\ fs_scores = <<>>
    /\ final_result = <<>>

ConcIdle ==
    /\ initial_weights = CATEGORY_WEIGHTS
    /\ pc = <<>>
    /\ run_scores = <<>>
    /\ run_total_weight = <<>>
    /\ run_index = <<>>
    /\ run_weighted_sum = <<>>
    /\ run_weight_used = <<>>
    /\ run_result = <<>>

EngIdle ==
    /\ eng_peer_data = <<>>
    /\ eng_ticker = ""
    /\ eng_weights = Dict(<<>>, <<>>)
    /\ eng_result = None
    /\ eng_pc = "idle"

RepIdle ==
    /\ configuration =
          [METRICS |-> METRICS, CATEGORY_WEIGHTS |-> CATEGORY_WEIGHTS,
           THRESHOLDS |-> THRESHOLDS]
    /\ invocations = <<>>

CallIdle ==
    /\ call_fn = ""
    /\ call_args = <<>>
    /\ call_result = None
    /\ call_pc = "idle"

----------------------------------------------------------------------------
(* SpecPct: calculate_percentile and calculate_all_percentiles applied to  *)
(* every input within the bounds, plus the documented example (Test 1).    *)

MaxVal == 3
MaxPeers == 3

PctMetric == "pe_ratio"
Methods == VALID_METHODS \cup {"median"}

SubjectValues == {None} \cup {Float(v) : v \in 1..MaxVal}
PeerEntries == {None, NaN} \cup {Float(v) : v \in 1..MaxVal}

RECURSIVE SeqsUpTo(_, _)
SeqsUpTo(S, n) ==
    IF n = 0 THEN {<<>>}
    ELSE LET shorter == SeqsUpTo(S, n - 1)
         IN  shorter \cup {Append(q, x) : q \in {t \in shorter : Len(t) = n - 1}, x \in S}

(* percentile.py lines 153-156: peers = [10, 15, 20, 25, 30, 35, 40].      *)
Test1Peers == <<Float(10), Float(15), Float(20), Float(25), Float(30), Float(35),
                Float(40)>>
Test1Value == Float(25)

InitPct ==
    /\ \/ /\ value \in SubjectValues
          /\ peer_values \in SeqsUpTo(PeerEntries, MaxPeers)
          /\ method \in Methods
          /\ reverse_metrics \in SUBSET {PctMetric}
       \/ /\ value = Test1Value
          /\ peer_values = Test1Peers
          /\ method = "rank"
          /\ reverse_metrics = {}
    /\ cleaned = <<>>
    /\ percentile = None
    /\ percentiles = [m \in {PctMetric} |-> None]
    /\ called = {}
    /\ AggIdle
    /\ FinIdle
    /\ ConcIdle
    /\ EngIdle
    /\ CallIdle
    /\ RepIdle

(* calc.calculate_percentile(value, peer_values, method)                   *)
CalculatePercentile ==
    /\ "calculate_percentile" \notin called
    /\ percentile' = calculate_percentile(value, peer_values, method)
    /\ cleaned' = CleanedAtReturn(value, peer_values)
    /\ called' = called \cup {"calculate_percentile"}
    /\ UNCHANGED <<value, peer_values, method, reverse_metrics, percentiles>>
    /\ UNCHANGED <<aggVars, finVars, concVars, engVars, callVars, repVars>>

(* calc.calculate_all_percentiles(stock, peers, [metric], method, reverse) *)
(* with one dict per peer holding that peer's entry.                       *)
CalculateAllPercentiles ==
    /\ "calculate_all_percentiles" \notin called
    /\ percentiles' = calculate_all_percentiles(
            [m \in {PctMetric} |-> value],
            [i \in 1..Len(peer_values) |-> [m \in {PctMetric} |-> peer_values[i]]],
            <<PctMetric>>, method, reverse_metrics)
    /\ called' = called \cup {"calculate_all_percentiles"}
    /\ UNCHANGED <<value, peer_values, method, reverse_metrics, cleaned, percentile>>
    /\ UNCHANGED <<aggVars, finVars, concVars, engVars, callVars, repVars>>

NextPct == CalculatePercentile \/ CalculateAllPercentiles

SpecPct == InitPct /\ [][NextPct]_vars

----------------------------------------------------------------------------
(* Claims about PercentileCalculator (checked under SpecPct)               *)

Ranked == "calculate_percentile" \in called /\ ~IsNone(percentile)
NumericPeers == CleanPeerValues(peer_values)
SubjectAmongPeers == IsFloat(value) /\ InSeq(value.val, NumericPeers)
InPercentRange(p) == IsNone(p) \/ (IsFloat(p) /\ 0 =< p.val /\ p.val =< Pts(100))

(* C5, as stated: whenever calculate_percentile ranks, the pool is the     *)
(* numeric peer values plus the subject's value as one more member, so     *)
(* its size is the number of numeric peer values + 1.                      *)
C5_PoolIsPeersPlusOne ==
    Ranked => Len(cleaned) = Len(NumericPeers) + 1

(* C5, amended: whenever calculate_percentile ranks, the subject's value   *)
(* is a member of the pool; it is appended to the numeric peer values only *)
(* when no peer has exactly that value (size + 1), and otherwise the pool  *)
(* is the numeric peer values alone.                                       *)
C5_PoolHoldsSubjectDeduplicated ==
    Ranked =>
        /\ InSeq(value.val, cleaned)
        /\ Len(cleaned) = Len(NumericPeers) + (IF SubjectAmongPeers THEN 0 ELSE 1)
        /\ \A i \in 1..Len(NumericPeers) : cleaned[i] = NumericPeers[i]

C5_Witness ==
    Ranked /\ SubjectAmongPeers /\ Len(cleaned) = Len(NumericPeers)

IsTest1 == value = Test1Value /\ peer_values = Test1Peers /\ method = "rank"

(* C6, as stated: for peers [10,15,20,25,30,35,40] and subject 25,         *)
(* calculate_percentile with method rank returns 50.0.                     *)
C6_Test1Returns50 ==
    ("calculate_percentile" \in called /\ IsTest1) => percentile = Float(Pts(50))

(* C6, amended: for peers [10,15,20,25,30,35,40] and subject 25,           *)
(* calculate_percentile with method rank returns 57.14                     *)
(* ((3 + 4 + 1) * 50 / 7 over the seven pooled values).                    *)
C6_Test1Returns5714 ==
    ("calculate_percentile" \in called /\ IsTest1) => percentile = Float(57140)

C6_Witness ==
    "calculate_percentile" \in called /\ IsTest1 /\ Len(cleaned) = 7 /\ IsFloat(percentile)

(* C7, as stated: calculate_percentile returns absent exactly when the     *)
(* value is absent, or peer_values is empty, or fewer than 2 values remain *)
(* counting the numeric peer values and the subject's own value.           *)
C7_AbsentIffFewerThanTwoCountingSubject ==
    "calculate_percentile" \in called =>
        (IsNone(percentile) <=>
            \/ IsNone(value)
            \/ peer_values = <<>>
            \/ Len(NumericPeers) + 1 < 2)

(* C7, amended: calculate_percentile returns absent exactly when the value *)
(* is absent, or peer_values is empty, or the pool has fewer than 2        *)
(* members, where the subject's value is counted only if no numeric peer   *)
(* has exactly that value (so one numeric peer equal to the subject's      *)
(* value yields absent).                                                   *)
C7_AbsentIffPoolBelowTwo ==
    "calculate_percentile" \in called =>
        (IsNone(percentile) <=>
            \/ IsNone(value)
            \/ peer_values = <<>>
            \/ Len(NumericPeers) + (IF SubjectAmongPeers THEN 0 ELSE 1) < 2)

C7_Witness ==
    /\ "calculate_percentile" \in called
    /\ IsFloat(value)
    /\ peer_values = <<value>>
    /\ IsNone(percentile)

AllRanked == "calculate_all_percentiles" \in called

(* What calculate_all_percentiles returns for the same stock, peers and    *)
(* method when the metric is not listed in reverse_metrics.                *)
UnlistedPercentile ==
    calculate_all_percentiles(
        [m \in {PctMetric} |-> value],
        [i \in 1..Len(peer_values) |-> [m \in {PctMetric} |-> peer_values[i]]],
        <<PctMetric>>, method, {})[PctMetric]

NoPeerValuePresent == \A i \in 1..Len(peer_values) : IsNone(peer_values[i])

(* C15: for the same stock metrics, peer metrics and method, the           *)
(* percentile returned for a metric listed in reverse_metrics is 100 minus *)
(* the one returned when it is not listed (absent when that one is         *)
(* absent); a metric missing from the stock, or with no peer value         *)
(* present, yields absent either way.                                      *)
C15_ReversedIsHundredMinus ==
    AllRanked =>
        /\ PctMetric \in reverse_metrics =>
              IF IsNone(UnlistedPercentile) THEN IsNone(percentiles[PctMetric])
              ELSE percentiles[PctMetric] = Float(Pts(100) - UnlistedPercentile.val)
        /\ PctMetric \notin reverse_metrics =>
              percentiles[PctMetric] = UnlistedPercentile
        /\ (IsNone(value) \/ NoPeerValuePresent) => IsNone(percentiles[PctMetric])

C15_Witness ==
    /\ AllRanked
    /\ PctMetric \in reverse_metrics
    /\ IsFloat(UnlistedPercentile)
    /\ UnlistedPercentile.val > Pts(50)
    /\ percentiles[PctMetric] = Float(Pts(100) - UnlistedPercentile.val)

----------------------------------------------------------------------------
(* SpecAgg: score_all_metrics followed by aggregate_category, for the      *)
(* shipped METRICS and for single-category configurations whose weights    *)
(* include zero, numeric strings and unparsable strings.                   *)

ScoreLevels == 4

PercentileSamples == {Float(Pts(100 * k) \div ScoreLevels) : k \in 0..ScoreLevels}

CustomWeights == {Float(0), Float(25), Float(40), Str("0.30"), Str("n/a")}
CustomConfig(w1, w2, w3) ==
    Dict(<<"valuation">>,
      [valuation |->
          Dict(<<"pe_ratio", "peg_ratio", "price_to_fcf">>,
            [pe_ratio |-> [weight |-> w1, lower_is_better |-> TRUE,
                           display_name |-> "P/E Ratio"],
             peg_ratio |-> [weight |-> w2, lower_is_better |-> TRUE,
                            display_name |-> "PEG Ratio"],
             price_to_fcf |-> [weight |-> w3, lower_is_better |-> TRUE]])])
AggConfigs ==
    {METRICS} \cup {CustomConfig(w1, w2, w3) : w1 \in CustomWeights,
                                                w2 \in CustomWeights,
                                                w3 \in CustomWeights}

(* METRICS-like configuration with a valuation category whose weights are *)
(* zero or unparsable, the shipped growth category, and a category that    *)
(* is configured with no metric.  Its percentiles are drawn over three     *)
(* configured metrics and one that is not configured.                      *)
MisconfiguredMetrics ==
    Dict(<<"valuation", "growth", "momentum">>,
         [valuation |-> CustomConfig(Float(0), Str("n/a"), Float(0)).at["valuation"],
          growth |-> METRICS.at["growth"],
          momentum |-> Dict(<<>>, <<>>)])
MisconfiguredNames == {"pe_ratio", "revenue_growth", "eps_growth", "dividend_yield"}

(* Every dict over a subset of `names` with values in `vals`.              *)
PartialMaps(names, vals) == UNION {[d -> vals] : d \in SUBSET names}

MetricNamesOf(cfg, category) ==
    IF category \in DOMAIN cfg.at THEN DOMAIN cfg.at[category].at
    ELSE DOMAIN cfg.at["valuation"].at

(* category_aggregator.py lines 21-27: P/E 60, PEG 70, Price/FCF 50; the   *)
(* three are lower-is-better, so their percentiles are 40, 30, 50.         *)
ExamplePercentiles ==
    [pe_ratio |-> Float(Pts(40)), peg_ratio |-> Float(Pts(30)),
     price_to_fcf |-> Float(Pts(50))]

InitAgg ==
    /\ PctIdle
    /\ FinIdle
    /\ ConcIdle
    /\ EngIdle
    /\ CallIdle
    /\ RepIdle
    /\ \/ /\ agg_config \in AggConfigs
          /\ agg_category \in DOMAIN agg_config.at \cup
                              (IF agg_config = METRICS THEN {"momentum"} ELSE {})
          /\ agg_percentiles \in PartialMaps(MetricNamesOf(agg_config, agg_category),
                                             PercentileSamples \cup {None})
       \/ /\ agg_config = METRICS
          /\ agg_category = "valuation"
          /\ agg_percentiles = ExamplePercentiles
       \/ /\ agg_config = MisconfiguredMetrics
          /\ agg_category \in DOMAIN agg_config.at
          /\ agg_percentiles \in PartialMaps(MisconfiguredNames,
                                             PercentileSamples \cup {None})
    /\ all_category_results = <<>>
    /\ scored_metrics = <<>>
    /\ category_result = <<>>
    /\ agg_pc = "start"

(* scorer.score_all_metrics(percentiles)                                   *)
ScoreAllMetrics ==
    /\ agg_pc = "start"
    /\ scored_metrics' = score_all_metrics(agg_config, agg_percentiles)
    /\ agg_pc' = "scored"
    /\ UNCHANGED <<agg_config, agg_category, agg_percentiles, category_result,
                   all_category_results>>
    /\ UNCHANGED <<pctVars, finVars, concVars, engVars, callVars, repVars>>

(* aggregator.aggregate_category(category, scored_metrics)                  *)
AggregateCategory ==
    /\ agg_pc = "scored"
    /\ category_result' = aggregate_category(agg_config, agg_category, scored_metrics)
    /\ agg_pc' = "aggregated"
    /\ UNCHANGED <<agg_config, agg_category, agg_percentiles, scored_metrics,
                   all_category_results>>
    /\ UNCHANGED <<pctVars, finVars, concVars, engVars, callVars, repVars>>

(* aggregator.aggregate_all_categories(scored_metrics)                      *)
AggregateAllCategories ==
    /\ agg_pc = "scored"
    /\ all_category_results' = aggregate_all_categories(agg_config, scored_metrics)
    /\ agg_pc' = "aggregated_all"
    /\ UNCHANGED <<agg_config, agg_category, agg_percentiles, scored_metrics,
                   category_result>>
    /\ UNCHANGED <<pctVars, finVars, concVars, engVars, callVars, repVars>>

NextAgg == ScoreAllMetrics \/ AggregateCategory \/ AggregateAllCategories

SpecAgg == InitAgg /\ [][NextAgg]_vars

----------------------------------------------------------------------------
(* Claims about CategoryAggregator (checked under SpecAgg)                 *)

AddFrac(a, b) == <<a[1] * b[2] + b[1] * a[2], a[2] * b[2]>>
RECURSIVE SumFracs(_)
SumFracs(fs) == IF fs = <<>> THEN <<0, 1>> ELSE AddFrac(Head(fs), SumFracs(Tail(fs)))

Aggregated == agg_pc = "aggregated"

(* The configured metrics of the category that have a score.               *)
AvailableNames ==
    IF agg_category \notin DOMAIN agg_config.at THEN {}
    ELSE {n \in DOMAIN agg_config.at[agg_category].at :
            n \in DOMAIN scored_metrics /\ ~IsNone(scored_metrics[n].score)}
ConfiguredWeight(n) ==
    WeightAsFloat(GetOr(agg_config.at[agg_category].at[n], "weight", Float(0)))
AvailableWeight == SumSeq(MapSeq(SeqOfSet(AvailableNames), ConfiguredWeight))
WeightedScore(n) == scored_metrics[n].score.val * ConfiguredWeight(n)
AvailableWeightedScores == SumSeq(MapSeq(SeqOfSet(AvailableNames), WeightedScore))

EntryAdjustedWeight(m) == m.adjusted_weight
AdjustedWeightsSumToOne ==
    /\ \A i \in 1..Len(category_result.metrics) :
          "adjusted_weight" \in DOMAIN category_result.metrics[i]
    /\ LET total == SumFracs(MapSeq(category_result.metrics, EntryAdjustedWeight))
       IN  total[2] # 0 /\ total[1] = total[2]

(* C9, as stated: whenever at least one metric of the category has a       *)
(* score, every entry of the returned metrics list carries an              *)
(* adjusted_weight and the adjusted weights sum to 1.0.                    *)
C9_AdjustedWeightsSumToOneWheneverAvailable ==
    (Aggregated /\ AvailableNames # {}) => AdjustedWeightsSumToOne

(* C9, amended: whenever at least one metric of the category has a score   *)
(* and the weights of the available metrics do not total zero, every entry *)
(* of the returned metrics list is an available metric carrying an         *)
(* adjusted_weight, and the adjusted weights sum to 1.0, also when some    *)
(* configured metrics are missing.                                         *)
C9_AdjustedWeightsSumToOneWhenWeighted ==
    (Aggregated /\ AvailableNames # {} /\ AvailableWeight # 0) =>
        /\ Len(category_result.metrics) = Cardinality(AvailableNames)
        /\ AdjustedWeightsSumToOne

C9_Witness ==
    /\ Aggregated
    /\ Cardinality(AvailableNames) = 2
    /\ Len(category_result.missing_metrics) = 1
    /\ AvailableWeight # 0
    /\ AdjustedWeightsSumToOne

(* C10: with at least one available metric and non-zero total available    *)
(* weight, the category score is sum(score * weight) / (total available    *)
(* weight) over the available metrics only, rounded to 2 decimals; the     *)
(* documented example (60, 70, 50 under 0.40, 0.35, 0.25) gives 61.0.      *)
C10_WeightedAverageOfAvailable ==
    /\ (Aggregated /\ AvailableNames # {} /\ AvailableWeight # 0) =>
          /\ IsFloat(category_result.score)
          /\ category_result.score.val % 10 = 0
          /\ Abs(category_result.score.val * AvailableWeight - AvailableWeightedScores)
                =< 5 * Abs(AvailableWeight)
    /\ (Aggregated /\ agg_config = METRICS /\ agg_category = "valuation"
          /\ agg_percentiles = ExamplePercentiles) =>
          category_result.score = Float(Pts(61))

C10_Witness ==
    /\ Aggregated
    /\ agg_percentiles = ExamplePercentiles
    /\ scored_metrics["pe_ratio"].score = Float(Pts(60))
    /\ scored_metrics["peg_ratio"].score = Float(Pts(70))
    /\ scored_metrics["price_to_fcf"].score = Float(Pts(50))
    /\ category_result.score = Float(Pts(61))

ConfiguredCategory == agg_category \in DOMAIN agg_config.at

(* C11: when none of the configured metrics of a category has a score,     *)
(* aggregate_category returns an absent score (no default number), an      *)
(* empty metrics list, and a missing_metrics list naming every configured  *)
(* metric of the category, in configuration order.                         *)
C11_NoScoredMetricGivesAbsent ==
    (Aggregated /\ ConfiguredCategory /\ AvailableNames = {}) =>
        /\ IsNone(category_result.score)
        /\ category_result.metrics = <<>>
        /\ category_result.missing_metrics = agg_config.at[agg_category].order

(* Some metrics were given an absent percentile, others none at all.       *)
C11_Witness ==
    /\ Aggregated
    /\ ConfiguredCategory
    /\ AvailableNames = {}
    /\ DOMAIN agg_percentiles # {}
    /\ DOMAIN agg_percentiles # DOMAIN agg_config.at[agg_category].at
    /\ IsNone(category_result.score)
    /\ Len(category_result.missing_metrics) = 3

AllAggregated == agg_pc = "aggregated_all"

(* The configured metrics of `cat` that have a score, and their weight.    *)
AvailableNamesIn(cat) ==
    {n \in DOMAIN agg_config.at[cat].at :
        n \in DOMAIN scored_metrics /\ ~IsNone(scored_metrics[n].score)}
AvailableWeightIn(cat) ==
    LET w(n) == WeightAsFloat(GetOr(agg_config.at[cat].at[n], "weight", Float(0)))
    IN  SumSeq(MapSeq(SeqOfSet(AvailableNamesIn(cat)), w))
Misconfigured(cat) ==
    \/ agg_config.at[cat].order = <<>>
    \/ AvailableNamesIn(cat) # {} /\ AvailableWeightIn(cat) = 0

(* C12: a configuration error degrades to an absent score.  For a category *)
(* that is not configured, aggregate_category returns an absent score with *)
(* empty metrics and missing lists; when the weights of the available      *)
(* metrics total zero it returns an absent score; and                      *)
(* aggregate_all_categories returns a result for every configured          *)
(* category, with a numeric score for each category that has a scored      *)
(* metric of non-zero weight, whatever is wrong with the others.           *)
C12_ConfigurationErrorGivesAbsent ==
    /\ (Aggregated /\ (~ConfiguredCategory \/ agg_config.at[agg_category].order = <<>>)) =>
          category_result = [score |-> None, metrics |-> <<>>, missing_metrics |-> <<>>]
    /\ (Aggregated /\ ConfiguredCategory /\ AvailableNames # {} /\ AvailableWeight = 0) =>
          IsNone(category_result.score)
    /\ AllAggregated =>
          /\ DOMAIN all_category_results = DOMAIN agg_config.at
          /\ \A cat \in DOMAIN agg_config.at :
                /\ Misconfigured(cat) => IsNone(all_category_results[cat].score)
                /\ (AvailableNamesIn(cat) # {} /\ AvailableWeightIn(cat) # 0) =>
                      IsFloat(all_category_results[cat].score)

(* Valuation has a scored metric but zero weight, momentum no metric, and  *)
(* growth is still scored.                                                 *)
C12_Witness ==
    /\ AllAggregated
    /\ agg_config = MisconfiguredMetrics
    /\ AvailableNamesIn("valuation") # {}
    /\ IsNone(all_category_results["valuation"].score)
    /\ all_category_results["momentum"].missing_metrics = <<>>
    /\ IsFloat(all_category_results["growth"].score)

MetricsScored == agg_pc # "start"

(* Where the configuration defines metric n, and what it says there.       *)
ConfiguredIn(n) == {c \in DOMAIN agg_config.at : n \in DOMAIN agg_config.at[c].at}
CarriesConfiguration(n) ==
    \E c \in ConfiguredIn(n) :
        /\ scored_metrics[n].category = c
        /\ scored_metrics[n].weight = GetOr(agg_config.at[c].at[n], "weight", Float(0))
        /\ scored_metrics[n].display_name =
              GetOr(agg_config.at[c].at[n], "display_name", n)

(* C13, as stated: score_all_metrics returns one entry for every metric    *)
(* defined in the configuration, including metrics that are not keys of    *)
(* the percentiles argument, whose entries have absent percentile and      *)
(* score.                                                                  *)
C13_EntryForEveryConfiguredMetric ==
    MetricsScored =>
        /\ DOMAIN scored_metrics = ConfiguredMetricNames(agg_config)
        /\ \A n \in ConfiguredMetricNames(agg_config) \ DOMAIN agg_percentiles :
              IsNone(scored_metrics[n].percentile) /\ IsNone(scored_metrics[n].score)

(* C13, amended: score_all_metrics returns one entry for every configured  *)
(* metric that is a key of the percentiles argument and no other entry; a  *)
(* key whose percentile is absent gets an entry with absent percentile and *)
(* absent score, and every entry carries the configured category, weight   *)
(* and display name (the metric name when none is configured).             *)
C13_EntryForEveryConfiguredKey ==
    MetricsScored =>
        /\ DOMAIN scored_metrics =
              ConfiguredMetricNames(agg_config) \cap DOMAIN agg_percentiles
        /\ \A n \in DOMAIN scored_metrics :
              /\ scored_metrics[n].percentile = agg_percentiles[n]
              /\ IsNone(agg_percentiles[n]) => IsNone(scored_metrics[n].score)
              /\ CarriesConfiguration(n)

(* One configured metric is no key, one key has an absent percentile, one  *)
(* key is not configured.                                                  *)
C13_Witness ==
    /\ MetricsScored
    /\ agg_config = MisconfiguredMetrics
    /\ "dividend_yield" \in DOMAIN agg_percentiles
    /\ "eps_growth" \notin DOMAIN agg_percentiles
    /\ "pe_ratio" \in DOMAIN scored_metrics
    /\ IsNone(scored_metrics["pe_ratio"].score)
    /\ "revenue_growth" \in DOMAIN scored_metrics
    /\ IsFloat(scored_metrics["revenue_growth"].score)

----------------------------------------------------------------------------
(* SpecFinal: FinalScorer instances constructed one after another from one *)
(* weight mapping, and calculate_final_score called on them.               *)

MaxScorers == 2
FinalScoreLevels == 2

Categories == {"valuation", "growth", "profitability", "risk"}
CategoryOrder == <<"valuation", "growth", "profitability", "risk">>

(* Weights 0, 0.25 and 0.255.                                              *)
WeightSamples == {Frac(0, 1000), Frac(250, 1000), Frac(255, 1000)}
WeightMappings ==
    {CATEGORY_WEIGHTS} \cup {Dict(CategoryOrder, f) : f \in [Categories -> WeightSamples]}

FinalScoreSamples ==
    {None} \cup {Float(Pts(100 * k) \div FinalScoreLevels) : k \in 0..FinalScoreLevels}

(* Lines 170-175: the category scores of Test 1.                           *)
Test1CategoryScores ==
    [valuation |-> Float(Pts(60)), growth |-> Float(Pts(80)),
     profitability |-> Float(Pts(70)), risk |-> Float(Pts(50))]
(* Lines 196-200: the category scores of Test 2, with no growth score.     *)
Test2CategoryScores ==
    [valuation |-> Float(Pts(60)), profitability |-> Float(Pts(70)),
     risk |-> Float(Pts(50))]
CategoryScoreInputs ==
    [Categories -> FinalScoreSamples] \cup {Test1CategoryScores, Test2CategoryScores}

InitFinal ==
    /\ PctIdle
    /\ AggIdle
    /\ ConcIdle
    /\ EngIdle
    /\ CallIdle
    /\ RepIdle
    /\ shared_weights \in WeightMappings
    /\ fs_count = 0
    /\ fs_raised = FALSE
    /\ fs_scores = <<>>
    /\ final_result = <<>>

(* FinalScorer(shared_weights)                                             *)
NewFinalScorer ==
    /\ fs_count < MaxScorers
    /\ ~fs_raised
    /\ IF ConstructorRaises(shared_weights)
       THEN /\ fs_raised' = TRUE
            /\ UNCHANGED <<shared_weights, fs_count>>
       ELSE /\ shared_weights' = NormalizeWeights(shared_weights)
            /\ fs_count' = fs_count + 1
            /\ UNCHANGED fs_raised
    /\ UNCHANGED <<fs_scores, final_result>>
    /\ UNCHANGED <<pctVars, aggVars, concVars, engVars, callVars, repVars>>

(* scorer.calculate_final_score(category_scores) on a constructed scorer   *)
CalculateFinalScore ==
    /\ fs_count > 0
    /\ final_result = <<>>
    /\ \E scores \in CategoryScoreInputs :
          /\ fs_scores' = scores
          /\ final_result' = calculate_final_score(shared_weights, scores)
    /\ UNCHANGED <<shared_weights, fs_count, fs_raised>>
    /\ UNCHANGED <<pctVars, aggVars, concVars, engVars, callVars, repVars>>

NextFinal == NewFinalScorer \/ CalculateFinalScore

SpecFinal == InitFinal /\ [][NextFinal]_vars

----------------------------------------------------------------------------
(* Claims about FinalScorer (checked under SpecFinal)                      *)

FinalScoreReturned == fs_count > 0 /\ final_result # <<>>
NonNegativeWeights == \A cat \in DOMAIN shared_weights.at : shared_weights.at[cat][1] >= 0
ScoresInRangeOrAbsent == \A cat \in DOMAIN fs_scores : InPercentRange(fs_scores[cat])

(* C3: for every FinalScorer whose weight mapping the constructor accepted *)
(* or normalized (non-negative weights summing to within 1% of 1) and      *)
(* category scores each in [0,100] or absent, final_score is in [0,100].   *)
C3_FinalScoreInRange ==
    (FinalScoreReturned /\ NonNegativeWeights /\ ScoresInRangeOrAbsent) =>
        (0 =< final_result.final_score /\ final_result.final_score =< Pts(100))

----------------------------------------------------------------------------
(* SpecConc: scoring runs on several threads (engine.score_stock called    *)
(* from a thread pool as in StockScanner.scan_stock_universe), each given  *)
(* the same custom_weights mapping.  Step 7 of score_stock (engine.py      *)
(* lines 108-116) is the only step that touches state shared between runs: *)
(* FinalScorer(custom_weights) aliases and normalizes the mapping in       *)
(* place, calculate_final_score then iterates over it.  A run can be       *)
(* preempted between two iterations of either loop; one `/=` and one       *)
(* iteration of the scoring loop are each taken as atomic.                 *)

NumThreads == 2
Threads == 1..NumThreads

(* The shipped weights doubled: 0.6, 0.5, 0.5, 0.4.                        *)
DoubledWeights ==
    Dict(CategoryOrder,
         [valuation |-> <<3, 5>>, growth |-> <<1, 2>>,
          profitability |-> <<1, 2>>, risk |-> <<2, 5>>])
ConcWeightMappings == {CATEGORY_WEIGHTS, DoubledWeights}
ConcScoreSamples == {Float(Pts(0)), Float(Pts(100))}

InitConc ==
    /\ PctIdle
    /\ AggIdle
    /\ EngIdle
    /\ CallIdle
    /\ RepIdle
    /\ shared_weights \in ConcWeightMappings
    /\ fs_count = 0
    /\ fs_raised = FALSE
    /\ fs_scores = <<>>
    /\ final_result = <<>>
    /\ initial_weights = shared_weights
    /\ pc = [t \in Threads |-> "construct"]
    /\ run_scores \in [Threads -> [Categories -> ConcScoreSamples]]
    /\ run_total_weight = [t \in Threads |-> FInt(0)]
    /\ run_index = [t \in Threads |-> 1]
    /\ run_weighted_sum = [t \in Threads |-> FInt(0)]
    /\ run_weight_used = [t \in Threads |-> FInt(0)]
    /\ run_result = [t \in Threads |-> None]

ConcFrame == UNCHANGED <<pctVars, aggVars, engVars, callVars, repVars, fs_count, fs_raised, fs_scores,
                         final_result, initial_weights, run_scores>>

(* final_scorer.py lines 39-43: alias the mapping, sum it, test the sum.   *)
ConstructSum(t) ==
    /\ pc[t] = "construct"
    /\ run_total_weight' = [run_total_weight EXCEPT ![t] = TotalWeight(shared_weights)]
    /\ pc' = [pc EXCEPT ![t] = IF WithinTolerance(TotalWeight(shared_weights))
                               THEN "score" ELSE "normalize"]
    /\ UNCHANGED <<shared_weights, run_index, run_weighted_sum, run_weight_used,
                   run_result>>
    /\ ConcFrame

(* final_scorer.py lines 49-50: one `self.category_weights[cat] /=         *)
(* run_total_weight`.                                                          *)
NormalizeOne(t) ==
    /\ pc[t] = "normalize"
    /\ LET cat == shared_weights.order[run_index[t]]
           last == run_index[t] = Len(shared_weights.order)
       IN  /\ shared_weights' =
                [shared_weights EXCEPT !.at[cat] = FDiv(@, run_total_weight[t])]
           /\ run_index' = [run_index EXCEPT ![t] = IF last THEN 1 ELSE @ + 1]
           /\ pc' = [pc EXCEPT ![t] = IF last THEN "score" ELSE "normalize"]
    /\ UNCHANGED <<run_total_weight, run_weighted_sum, run_weight_used, run_result>>
    /\ ConcFrame

(* final_scorer.py lines 74-92: one iteration of the scoring loop.         *)
ScoreOne(t) ==
    /\ pc[t] = "score"
    /\ LET cat == shared_weights.order[run_index[t]]
           weight == shared_weights.at[cat]
           given == Get(run_scores[t], cat)
           score == IF IsNone(given) THEN NeutralScore ELSE given.val
           last == run_index[t] = Len(shared_weights.order)
       IN  /\ run_weighted_sum' =
                [run_weighted_sum EXCEPT ![t] = FAdd(@, FMul(weight, FInt(score)))]
           /\ run_weight_used' = [run_weight_used EXCEPT ![t] = FAdd(@, weight)]
           /\ run_index' = [run_index EXCEPT ![t] = IF last THEN 1 ELSE @ + 1]
           /\ pc' = [pc EXCEPT ![t] = IF last THEN "finish" ELSE "score"]
    /\ UNCHANGED <<shared_weights, run_total_weight, run_result>>
    /\ ConcFrame

(* final_scorer.py lines 94-102: rescale if needed, round.                 *)
FinishScore(t) ==
    /\ pc[t] = "finish"
    /\ LET final_sum == IF FLess(run_weight_used[t], ToleranceLow)
                        THEN FDiv(run_weighted_sum[t], run_weight_used[t])
                        ELSE run_weighted_sum[t]
       IN  run_result' = [run_result EXCEPT
                            ![t] = Float(Round1(final_sum[1], final_sum[2]))]
    /\ pc' = [pc EXCEPT ![t] = "done"]
    /\ UNCHANGED <<shared_weights, run_total_weight, run_index, run_weighted_sum,
                   run_weight_used>>
    /\ ConcFrame

NextConc ==
    \E t \in Threads :
        ConstructSum(t) \/ NormalizeOne(t) \/ ScoreOne(t) \/ FinishScore(t)

SpecConc == InitConc /\ [][NextConc]_vars

(* The final score a run returns when it executes alone, from the mapping  *)
(* as it was before any run started.                                       *)
ResultAlone(t) ==
    Float(calculate_final_score(NormalizeWeights(initial_weights),
                                run_scores[t]).final_score)

(* C4: whatever the interleaving, every run returns the result it produces *)
(* when executed alone; none computes from partially updated or doubly     *)
(* normalized weights.                                                     *)
C4_RunsAreIndependent ==
    \A t \in DOMAIN pc : pc[t] = "done" => run_result[t] = ResultAlone(t)

----------------------------------------------------------------------------
(* SpecEngine: one full scoring run, StockScoringEngine.score_stock, on    *)
(* bounded peer data.  A stock's metrics are picked by one level per       *)
(* category: level 0 leaves the category's metrics absent, a higher level  *)
(* gives each of them the value RawValue assigns to that level.            *)

MaxLevel == 2
MaxEnginePeers == 2

Levels == 0..MaxLevel

(* Raw values in hundredths; at level 2 and above debt is high, liquidity  *)
(* weak and revenue growth exceptional.                                    *)
RawValue(metric, l) ==
    CASE metric = "pe_ratio" -> 1000 * l
      [] metric = "peg_ratio" -> 100 * l
      [] metric = "price_to_fcf" -> 500 * l
      [] metric = "revenue_growth" -> 30 * l - 20
      [] metric = "eps_growth" -> 10 * l
      [] metric = "roe" -> 10 * l
      [] metric = "operating_margin" -> 10 * l
      [] metric = "net_margin" -> 5 * l
      [] metric = "debt_to_equity" -> 200 * l - 100
      [] metric = "current_ratio" -> Max(200 - 50 * l, 0)
      [] metric = "beta" -> 50 * l + 50

FieldCategory(metric) ==
    CASE metric \in {"pe_ratio", "peg_ratio", "price_to_fcf"} -> "valuation"
      [] metric \in {"revenue_growth", "eps_growth"} -> "growth"
      [] metric \in {"roe", "operating_margin", "net_margin"} -> "profitability"
      [] metric \in {"debt_to_equity", "current_ratio", "beta"} -> "risk"

(* A StockMetrics record (src/src/utils/models.py lines 13-54).            *)
StockMetrics(t, level) ==
    [k \in Range(MetricFields) \cup {"ticker"} |->
        IF k = "ticker" THEN t
        ELSE IF level[FieldCategory(k)] = 0 THEN None
        ELSE Float(RawValue(k, level[FieldCategory(k)]))]

Uniform(l) == [cat \in Categories |-> l]
PeerTickers == <<"MSFT", "GOOG", "NVDA", "META">>
SubjectTicker == "AAPL"
GivenTickers == {"aapl", "AAPL"}

PeerLists ==
    {[i \in 1..Len(ls) |-> StockMetrics(PeerTickers[i], Uniform(ls[i]))] :
        ls \in SeqsUpTo(Levels, MaxEnginePeers)}

(* All weights zero, and weights summing to 1.005.                         *)
ZeroWeights == Dict(CategoryOrder, [cat \in Categories |-> FInt(0)])
HeavyWeights ==
    Dict(CategoryOrder,
         [valuation |-> <<1, 4>>, growth |-> <<1, 4>>,
          profitability |-> <<1, 4>>, risk |-> <<51, 200>>])
EngineWeights == {Dict(<<>>, <<>>), DoubledWeights, ZeroWeights, HeavyWeights}

InitEngine ==
    /\ PctIdle
    /\ AggIdle
    /\ FinIdle
    /\ ConcIdle
    /\ CallIdle
    /\ RepIdle
    /\ eng_ticker \in GivenTickers
    /\ eng_weights \in EngineWeights
    /\ \E peers \in PeerLists :
          \/ eng_peer_data = peers
          \/ \E level \in [Categories -> Levels] :
                eng_peer_data = <<StockMetrics(SubjectTicker, level)>> \o peers
    /\ eng_result = None
    /\ eng_pc = "ready"

ScoreStock ==
    /\ eng_pc = "ready"
    /\ LET r == score_stock(eng_ticker, eng_peer_data, eng_weights)
       IN  /\ eng_result' = r.returned
           /\ eng_weights' = r.custom_weights
    /\ eng_pc' = "returned"
    /\ UNCHANGED <<eng_peer_data, eng_ticker>>
    /\ UNCHANGED <<pctVars, aggVars, finVars, concVars, callVars, repVars>>

NextEngine == ScoreStock

SpecEngine == InitEngine /\ [][NextEngine]_vars

Returned == eng_pc = "returned"
Scored == Returned /\ eng_result.tag = "ScoringResult"
SubjectFetched == HasTicker(eng_peer_data, Upper(eng_ticker))
Subject == Lookup(eng_peer_data, Upper(eng_ticker))

(* The rank percentile of the subject's raw value of `metric` among the    *)
(* values the peer data holds for it, with no reversal.                    *)
UnreversedPercentile(metric) ==
    LET present(m) == ~IsNone(m[metric])
        value_of(m) == m[metric]
    IN  calculate_percentile(Subject[metric],
                             MapSeq(SelectSeq(eng_peer_data, present), value_of),
                             "rank")

(* C1: in the result of a full run, the score of every lower-is-better     *)
(* metric is 100 - p, p being the un-reversed rank percentile of the       *)
(* subject's raw value in the pool (the inversion is applied once).        *)
C1_LowerIsBetterInvertedOnce ==
    Scored =>
        \A cat \in DOMAIN eng_result.category_scores :
            LET ms == eng_result.category_scores[cat].metric_scores
            IN  \A i \in 1..Len(ms) :
                    ms[i].metric_name \in REVERSE_METRICS =>
                        ms[i].score =
                            Float(Pts(100) - UnreversedPercentile(ms[i].metric_name).val)

AllCategoryScoresAbsent ==
    /\ SubjectFetched
    /\ \A cat \in Categories :
          IsNone(EngineCategoryResults(Subject, eng_peer_data)[cat].score)

(* C2: a run whose every category score is absent is signalled as a        *)
(* failure; it returns no ScoringResult.                                   *)
C2_NoMetricsIsFailure ==
    (Returned /\ AllCategoryScoresAbsent) => IsNone(eng_result)

----------------------------------------------------------------------------
(* SpecScore: one call scorer.score_from_percentile(percentile,            *)
(* metric_name, category) on a MetricScorer built with the shipped         *)
(* METRICS, for configured and unconfigured metric/category combinations.  *)

(* Percentiles of two decimals, as calculate_all_percentiles produces, and *)
(* two of three decimals.                                                  *)
ScorePercentiles ==
    {None} \cup PercentileSamples
           \cup {Float(Pts(80)), Float(33330), Float(33333), Float(66665)}
ScoreMetricNames == Range(_get_all_metric_names) \cup {"dividend_yield"}
ScoreCategories == DOMAIN METRICS.at \cup {"momentum"}

InitScore ==
    /\ PctIdle
    /\ AggIdle
    /\ FinIdle
    /\ ConcIdle
    /\ EngIdle
    /\ RepIdle
    /\ call_fn = "score_from_percentile"
    /\ call_args \in [percentile : ScorePercentiles,
                      metric_name : ScoreMetricNames,
                      category : ScoreCategories]
    /\ call_result = None
    /\ call_pc = "ready"

CallFrame == UNCHANGED <<pctVars, aggVars, finVars, concVars, engVars, repVars>>

ScoreFromPercentile ==
    /\ call_pc = "ready"
    /\ call_fn = "score_from_percentile"
    /\ call_result' = score_from_percentile(METRICS, call_args.percentile,
                                            call_args.metric_name,
                                            call_args.category)
    /\ call_pc' = "returned"
    /\ UNCHANGED <<call_fn, call_args>>
    /\ CallFrame

NextScore == ScoreFromPercentile

SpecScore == InitScore /\ [][NextScore]_vars

CallReturned(fn) == call_fn = fn /\ call_pc = "returned"

(* The configuration marks the metric lower-is-better in that category.    *)
ConfiguredLowerIsBetter(metric_name, category) ==
    /\ category \in DOMAIN METRICS.at
    /\ metric_name \in DOMAIN METRICS.at[category].at
    /\ "lower_is_better" \in DOMAIN METRICS.at[category].at[metric_name]
    /\ METRICS.at[category].at[metric_name].lower_is_better

(* C14: score_from_percentile returns 100 - p for a metric configured      *)
(* lower_is_better, p for one that is not and for a metric/category        *)
(* combination that is not configured, and absent when p is absent.  The   *)
(* result is rounded to 2 decimals: it is exactly 100 - p or p when p has  *)
(* at most 2 decimals and within half a hundredth of it otherwise.         *)
C14_ScoreFromPercentile ==
    CallReturned("score_from_percentile") =>
        LET p == call_args.percentile
            expected == IF ConfiguredLowerIsBetter(call_args.metric_name,
                                                   call_args.category)
                        THEN Pts(100) - p.val ELSE p.val
        IN  IF IsNone(p) THEN IsNone(call_result)
            ELSE /\ IsFloat(call_result)
                 /\ call_result.val % 10 = 0
                 /\ Abs(call_result.val - expected) =< 5
                 /\ p.val % 10 = 0 => call_result.val = expected

(* The documented example: percentile 80 of pe_ratio scores 20.0.          *)
C14_Witness ==
    /\ CallReturned("score_from_percentile")
    /\ call_args = [percentile |-> Float(Pts(80)), metric_name |-> "pe_ratio",
                    category |-> "valuation"]
    /\ call_result = Float(Pts(20))

----------------------------------------------------------------------------
(* SpecAdjust: one call of a method of a ContextualAdjuster built with the *)
(* shipped THRESHOLDS.  Scores are category scores (two decimals, within   *)
(* 0..100); raw metrics sit below, on and above each threshold, or are     *)
(* absent.                                                                 *)

AdjustScores ==
    {Pts(0), Pts(30), Pts(35), 39990, Pts(40), Pts(45), 49990, Pts(50),
     Pts(70), 70010, Pts(85), Pts(100)}
DebtSamples == {None, Float(100), Float(200), Float(350), Float(1000)}
LiquiditySamples == {None, Float(0), Float(80), Float(120), Float(150)}
GrowthSamples == {None, Float(10), Float(30), Float(40), Float(60)}
AdjustRawMetrics ==
    [debt_to_equity : DebtSamples, current_ratio : LiquiditySamples,
     revenue_growth : GrowthSamples]

(* Category results as the aggregator returns them, reduced to the field   *)
(* apply_all_adjustments reads; a category may be missing altogether.      *)
AdjustCategoryResults ==
    PartialMaps(Categories, {[score |-> x] : x \in {None, Float(Pts(35)), Float(Pts(85))}})

(* adjustments.py lines 245-297: the scenario of Tests 1-3.                *)
Test3CategoryScores ==
    [valuation |-> [score |-> Float(Pts(35))], growth |-> [score |-> Float(Pts(85))],
     profitability |-> [score |-> Float(Pts(30))], risk |-> [score |-> Float(Pts(45))]]
Test3RawMetrics ==
    [pe_ratio |-> Float(4500), revenue_growth |-> Float(40),
     debt_to_equity |-> Float(350), current_ratio |-> Float(80)]

(* Every category at the lowest or the highest score, and the scores at    *)
(* which the rules add and subtract the most.                              *)
BoundaryCategoryScores ==
    {[cat \in Categories |-> [score |-> Float(x)]] : x \in {Pts(0), Pts(100)}}
    \cup {[valuation |-> [score |-> Float(49990)], growth |-> [score |-> Float(Pts(100))],
           profitability |-> [score |-> Float(39990)], risk |-> [score |-> Float(Pts(10))]]}

InitAdjust ==
    /\ PctIdle
    /\ AggIdle
    /\ FinIdle
    /\ ConcIdle
    /\ EngIdle
    /\ RepIdle
    /\ \/ /\ call_fn = "adjust_valuation_for_growth"
          /\ call_args \in [valuation_score : AdjustScores, growth_score : AdjustScores,
                            raw_metrics : AdjustRawMetrics]
       \/ /\ call_fn = "adjust_risk_for_liquidity"
          /\ call_args \in [risk_score : AdjustScores, raw_metrics : AdjustRawMetrics]
       \/ /\ call_fn = "adjust_profitability_for_growth_stage"
          /\ call_args \in [profitability_score : AdjustScores,
                            growth_score : AdjustScores,
                            raw_metrics : AdjustRawMetrics]
       \/ /\ call_fn = "apply_all_adjustments"
          /\ \/ call_args \in [category_scores : AdjustCategoryResults,
                               raw_metrics : AdjustRawMetrics]
             \/ call_args = [category_scores |-> Test3CategoryScores,
                             raw_metrics |-> Test3RawMetrics]
             \/ call_args \in [category_scores : BoundaryCategoryScores,
                               raw_metrics : AdjustRawMetrics]
    /\ call_result = None
    /\ call_pc = "ready"

AdjustValuationForGrowth ==
    /\ call_pc = "ready"
    /\ call_fn = "adjust_valuation_for_growth"
    /\ call_result' = adjust_valuation_for_growth(call_args.valuation_score,
                                                  call_args.growth_score,
                                                  call_args.raw_metrics)
    /\ call_pc' = "returned"
    /\ UNCHANGED <<call_fn, call_args>>
    /\ CallFrame

AdjustRiskForLiquidity ==
    /\ call_pc = "ready"
    /\ call_fn = "adjust_risk_for_liquidity"
    /\ call_result' = adjust_risk_for_liquidity(call_args.risk_score,
                                                call_args.raw_metrics)
    /\ call_pc' = "returned"
    /\ UNCHANGED <<call_fn, call_args>>
    /\ CallFrame

AdjustProfitabilityForGrowthStage ==
    /\ call_pc = "ready"
    /\ call_fn = "adjust_profitability_for_growth_stage"
    /\ call_result' = adjust_profitability_for_growth_stage(
                          call_args.profitability_score, call_args.growth_score,
                          call_args.raw_metrics)
    /\ call_pc' = "returned"
    /\ UNCHANGED <<call_fn, call_args>>
    /\ CallFrame

ApplyAllAdjustments ==
    /\ call_pc = "ready"
    /\ call_fn = "apply_all_adjustments"
    /\ call_result' = apply_all_adjustments(call_args.category_scores,
                                            call_args.raw_metrics)
    /\ call_pc' = "returned"
    /\ UNCHANGED <<call_fn, call_args>>
    /\ CallFrame

NextAdjust ==
    \/ AdjustValuationForGrowth
    \/ AdjustRiskForLiquidity
    \/ AdjustProfitabilityForGrowthStage
    \/ ApplyAllAdjustments

SpecAdjust == InitAdjust /\ [][NextAdjust]_vars

HighDebtWeakLiquidity(raw_metrics) ==
    /\ IsFloat(Get(raw_metrics, "debt_to_equity"))
    /\ IsFloat(Get(raw_metrics, "current_ratio"))
    /\ raw_metrics.debt_to_equity.val > THRESHOLDS.high_debt
    /\ raw_metrics.current_ratio.val < THRESHOLDS.weak_liquidity

(* severity * 10 points, in thousandths of a point.                        *)
SeverityPenalty(raw_metrics) ==
    (raw_metrics.debt_to_equity.val - THRESHOLDS.high_debt)
        * (THRESHOLDS.weak_liquidity - raw_metrics.current_ratio.val)

(* C17: adjust_risk_for_liquidity returns                                  *)
(* max(risk_score - min(severity * 10, 25), 0), with severity =            *)
(* (debt_to_equity - high_debt) * (weak_liquidity - current_ratio) and an  *)
(* explanation, exactly when both raw values are present, debt_to_equity > *)
(* high_debt and current_ratio < weak_liquidity; in every other case it    *)
(* returns risk_score unchanged with no explanation; risk 45, debt 3.5 and *)
(* current ratio 0.8 give 39.0.                                            *)
C17_RiskForLiquidity ==
    CallReturned("adjust_risk_for_liquidity") =>
        LET r == call_args.risk_score
            raw == call_args.raw_metrics
        IN  /\ IF HighDebtWeakLiquidity(raw)
               THEN /\ call_result[1] = Max(r - Min(SeverityPenalty(raw), Pts(25)), 0)
                    /\ ~IsNone(call_result[2])
               ELSE /\ call_result[1] = r
                    /\ IsNone(call_result[2])
            /\ (r = Pts(45) /\ raw.debt_to_equity = Float(350)
                  /\ raw.current_ratio = Float(80)) => call_result[1] = Pts(39)

C17_Witness ==
    /\ CallReturned("adjust_risk_for_liquidity")
    /\ call_args.risk_score = Pts(45)
    /\ call_args.raw_metrics.debt_to_equity = Float(350)
    /\ call_args.raw_metrics.current_ratio = Float(80)
    /\ call_result[1] = Pts(39)
    /\ ~IsNone(call_result[2])

(* C18: adjust_profitability_for_growth_stage returns                      *)
(* min(profitability_score + min(revenue_growth * 30, 15), 100) with an    *)
(* explanation exactly when revenue_growth is present, profitability_score *)
(* < 40 and revenue_growth > 0.30; otherwise it returns                    *)
(* profitability_score unchanged with no explanation; growth_score plays   *)
(* no part.                                                                *)
C18_ProfitabilityForGrowthStage ==
    CallReturned("adjust_profitability_for_growth_stage") =>
        LET q == call_args.profitability_score
            rg == Get(call_args.raw_metrics, "revenue_growth")
        IN  /\ IF IsFloat(rg) /\ q < Pts(40) /\ rg.val > 30
               THEN /\ call_result[1] = Min(q + Min(rg.val * 300, Pts(15)), Pts(100))
                    /\ ~IsNone(call_result[2])
               ELSE /\ call_result[1] = q
                    /\ IsNone(call_result[2])
            /\ \A g \in AdjustScores :
                  call_result = adjust_profitability_for_growth_stage(
                                    q, g, call_args.raw_metrics)

(* Revenue growth 0.60 hits the cap: 15 points, not 18.                    *)
C18_Witness ==
    /\ CallReturned("adjust_profitability_for_growth_stage")
    /\ call_args.profitability_score = Pts(30)
    /\ call_args.raw_metrics.revenue_growth = Float(60)
    /\ call_args.growth_score = Pts(0)
    /\ call_result[1] = Pts(45)
    /\ ~IsNone(call_result[2])

(* The score a category enters apply_all_adjustments with: its input      *)
(* score, or the neutral 50 when that is absent.                           *)
EnteringScore(cat) ==
    IF cat \in DOMAIN call_args.category_scores
       /\ IsFloat(call_args.category_scores[cat].score)
    THEN call_args.category_scores[cat].score.val
    ELSE Pts(50)

ValuationRuleFires == EnteringScore("valuation") < Pts(50) /\ EnteringScore("growth") > Pts(70)
RiskRuleFires == HighDebtWeakLiquidity(call_args.raw_metrics)
ProfitabilityRuleFires ==
    /\ IsFloat(Get(call_args.raw_metrics, "revenue_growth"))
    /\ EnteringScore("profitability") < Pts(40)
    /\ call_args.raw_metrics.revenue_growth.val > 30

FiredRules ==
    (IF ValuationRuleFires THEN <<"valuation_for_growth">> ELSE <<>>)
    \o (IF RiskRuleFires THEN <<"risk_for_liquidity">> ELSE <<>>)
    \o (IF ProfitabilityRuleFires THEN <<"profitability_for_growth_stage">> ELSE <<>>)

ExplanationKind(e) == e.kind

(* C19: apply_all_adjustments returns adjusted scores for exactly the four *)
(* categories valuation, growth, profitability and risk; an absent input   *)
(* score enters as the neutral 50; the returned growth score is the input  *)
(* growth score (50 if absent); a category whose rule does not fire is     *)
(* returned unchanged, one whose rule fires gets that rule's adjusted      *)
(* score; adjustments_made holds one explanation per rule that fired,      *)
(* in the order valuation, risk, profitability.                            *)
C19_ApplyAllAdjustments ==
    CallReturned("apply_all_adjustments") =>
        LET adjusted == call_result.adjusted_scores.at
        IN  /\ DOMAIN adjusted = {"valuation", "growth", "profitability", "risk"}
            /\ adjusted["growth"] = EnteringScore("growth")
            /\ IF ValuationRuleFires
               THEN 2 * adjusted["valuation"] =
                        Min(2 * EnteringScore("valuation")
                              + Min(EnteringScore("growth") - Pts(70), 2 * Pts(20)),
                            2 * Pts(100))
               ELSE adjusted["valuation"] = EnteringScore("valuation")
            /\ IF RiskRuleFires
               THEN adjusted["risk"] =
                        Max(EnteringScore("risk")
                              - Min(SeverityPenalty(call_args.raw_metrics), Pts(25)), 0)
               ELSE adjusted["risk"] = EnteringScore("risk")
            /\ IF ProfitabilityRuleFires
               THEN adjusted["profitability"] =
                        Min(EnteringScore("profitability")
                              + Min(call_args.raw_metrics.revenue_growth.val * 300,
                                    Pts(15)),
                            Pts(100))
               ELSE adjusted["profitability"] = EnteringScore("profitability")
            /\ MapSeq(call_result.adjustments_made, ExplanationKind) = FiredRules

(* adjustments.py lines 282-297 (Test 3): all three rules fire.            *)
C19_Witness ==
    /\ CallReturned("apply_all_adjustments")
    /\ call_args.category_scores = Test3CategoryScores
    /\ call_args.raw_metrics = Test3RawMetrics
    /\ Len(call_result.adjustments_made) = 3
    /\ call_result.adjusted_scores.at =
          [valuation |-> 42500, growth |-> Pts(85), profitability |-> Pts(42),
           risk |-> Pts(39)]

----------------------------------------------------------------------------
(* Claims about the weighted sum of calculate_final_score (SpecFinal)      *)

AbsentScore(cat) == IsNone(Get(fs_scores, cat))
ReplacedCategories == SelectSeq(shared_weights.order, AbsentScore)
WarningsAbout(cat) ==
    {i \in DOMAIN final_result.warnings :
        /\ final_result.warnings[i].kind = "missing"
        /\ final_result.warnings[i].category = cat}
WeightTimesScore(cat) ==
    FMul(shared_weights.at[cat],
         FInt(IF AbsentScore(cat) THEN Pts(50) ELSE fs_scores[cat].val))
WeightedSumOfScores == FSum(MapSeq(shared_weights.order, WeightTimesScore))

(* C20: calculate_final_score returns final_score = round(sum over every   *)
(* configured category of weight x score, 1), where an absent category     *)
(* score counts as 50 and the warnings hold exactly one entry per replaced *)
(* category and nothing else; scores {60, 80, 70, 50} under the weights    *)
(* {0.30, 0.25, 0.25, 0.20} give 65.5.                                     *)
C20_WeightedSumRounded ==
    FinalScoreReturned =>
        /\ final_result.final_score =
              Round1(WeightedSumOfScores[1], WeightedSumOfScores[2])
        /\ \A cat \in Categories :
              Cardinality(WarningsAbout(cat)) = (IF AbsentScore(cat) THEN 1 ELSE 0)
        /\ Len(final_result.warnings) = Len(ReplacedCategories)
        /\ (shared_weights = CATEGORY_WEIGHTS /\ fs_scores = Test1CategoryScores)
              => final_result.final_score = 65500

(* Unequal weights, one absent score among present ones that differ from   *)
(* 50, and a final score that the replacement by 50 decides.               *)
C20_Witness ==
    /\ FinalScoreReturned
    /\ shared_weights = CATEGORY_WEIGHTS
    /\ AbsentScore("valuation")
    /\ fs_scores["growth"] = Float(Pts(100))
    /\ fs_scores["profitability"] = Float(Pts(100))
    /\ fs_scores["risk"] = Float(Pts(0))
    /\ final_result.final_score = 65000
    /\ Len(final_result.warnings) = 1

----------------------------------------------------------------------------
(* Claims about FinalScorer.__init__ (SpecFinal)                           *)

RescalingWarnings ==
    {i \in DOMAIN final_result.warnings : final_result.warnings[i].kind = "normalized"}

ConstructionCompletes == fs_count' = fs_count + 1
DividedBySum(category_weights) ==
    [cat \in DOMAIN category_weights.at |->
        FDiv(category_weights.at[cat], TotalWeight(category_weights))]

C21_ConstructionCompletesNormalized ==
    /\ ~fs_raised
    /\ fs_count > 0 => WithinTolerance(TotalWeight(shared_weights))

----------------------------------------------------------------------------
(* Claims about the ScoringResult of a full run (SpecEngine)               *)

(* Step 5 of the run: what aggregate_all_categories returned for `cat`.    *)
AggregatedFor(cat) == EngineCategoryResults(Subject, eng_peer_data)[cat]
ReportedFor(cat) == eng_result.category_scores[cat]
ShownAsNumber(category_score) == category_score.score \in Int

ReportedContribution(cat) == FMul(ReportedFor(cat).weight, FInt(ReportedFor(cat).score))
ReportedWeightedSum ==
    FSum(MapSeq(SeqOfSet(DOMAIN eng_result.category_scores), ReportedContribution))

(* C26: the weights reported in a ScoringResult are the weights that       *)
(* produced its final_score: with or without custom_weights, final_score   *)
(* is round(sum over the reported categories of reported weight x reported *)
(* score, 1).                                                              *)
C26_ReportedWeightsGiveFinalScore ==
    Scored =>
        eng_result.final_score = Round1(ReportedWeightedSum[1], ReportedWeightedSum[2])

(* The metric has a value for the subject and for another stock of the     *)
(* peer data.                                                              *)
PresentForSubjectAndPeer(metric) ==
    /\ ~IsNone(Subject[metric])
    /\ \E i \in 1..Len(eng_peer_data) :
          /\ eng_peer_data[i].ticker # Upper(eng_ticker)
          /\ ~IsNone(eng_peer_data[i][metric])
ContributingNames(cat) ==
    {ReportedFor(cat).metric_scores[i].metric_name :
        i \in 1..Len(ReportedFor(cat).metric_scores)}

(* C27: the metric names of the configuration and the keys of the raw      *)
(* metric map the engine builds are the same set, so every metric present  *)
(* for the subject and for at least one peer contributes to its category   *)
(* score; in particular net_margin contributes to profitability.           *)
C27_EveryPresentMetricContributes ==
    Scored =>
        /\ \A metric \in Range(MetricFields) :
              PresentForSubjectAndPeer(metric) =>
                  metric \in ContributingNames(FieldCategory(metric))
        /\ Range(_get_all_metric_names) = Range(MetricFields)

(* C22: when a category has no scoreable metric, the per-category detail   *)
(* of the returned ScoringResult shows that category's score as absent,    *)
(* not as a number: the neutral 50 enters the final score only.            *)
C22_AbsentCategoryShownAbsent ==
    Scored =>
        \A cat \in DOMAIN eng_result.category_scores :
            IsNone(AggregatedFor(cat).score) => ~ShownAsNumber(ReportedFor(cat))

----------------------------------------------------------------------------
(* SpecRepeat: the component instances of one engine (engine.py lines      *)
(* 25-29: MetricScorer(), CategoryAggregator(), ContextualAdjuster(),      *)
(* FinalScorer()) receive calls one after another.  Built without          *)
(* arguments, their fields metrics_config, thresholds and category_weights *)
(* are the objects METRICS, THRESHOLDS and CATEGORY_WEIGHTS of the         *)
(* configuration module themselves.                                        *)

MaxInvocations == 3

InitialConfiguration ==
    [METRICS |-> METRICS, CATEGORY_WEIGHTS |-> CATEGORY_WEIGHTS,
     THRESHOLDS |-> THRESHOLDS]

RepeatArguments(fn) ==
    CASE fn = "score_from_percentile" ->
            [percentile : {None, Float(Pts(70))},
             metric_name : {"pe_ratio", "roe"},
             category : {"valuation", "profitability"}]
      [] fn = "aggregate_category" ->
            [category : {"valuation", "growth"},
             metric_scores : {score_all_metrics(METRICS, ExamplePercentiles)}]
      [] fn = "apply_all_adjustments" ->
            [category_scores : {Test3CategoryScores,
                                [valuation |-> [score |-> None]]},
             raw_metrics : {Test3RawMetrics}]
      [] fn = "calculate_final_score" ->
            [category_scores : {Test1CategoryScores, Test2CategoryScores}]

HalvedWeightsAfter(fn, config) ==
    [config EXCEPT !.CATEGORY_WEIGHTS =
        Dict(config.CATEGORY_WEIGHTS.order,
             [cat \in DOMAIN config.CATEGORY_WEIGHTS.at |->
                 FMul(config.CATEGORY_WEIGHTS.at[cat], <<1, 2>>)])]

(* The configuration objects after a call of `fn`: none of the four        *)
(* methods assigns to a field of self or to an entry of a mapping it       *)
(* reads (metric_scorer.py 68-84, category_aggregator.py 52-118,           *)
(* adjustments.py 188-232, final_scorer.py 69-108 build new objects only). *)
ConfigurationAfter(fn, config) == config

(* What the call returns, the instances' fields being the objects of       *)
(* `config`; apply_all_adjustments reads self.thresholds, modelled by the  *)
(* shipped THRESHOLDS.                                                     *)
Invoke(fn, args, config) ==
    CASE fn = "score_from_percentile" ->
            score_from_percentile(config.METRICS, args.percentile,
                                  args.metric_name, args.category)
      [] fn = "aggregate_category" ->
            aggregate_category(config.METRICS, args.category, args.metric_scores)
      [] fn = "apply_all_adjustments" ->
            apply_all_adjustments(args.category_scores, args.raw_metrics)
      [] fn = "calculate_final_score" ->
            calculate_final_score(config.CATEGORY_WEIGHTS, args.category_scores)

InitRepeat ==
    /\ PctIdle
    /\ AggIdle
    /\ FinIdle
    /\ ConcIdle
    /\ EngIdle
    /\ CallIdle
    /\ configuration = InitialConfiguration
    /\ invocations = <<>>

RepeatFrame == UNCHANGED <<pctVars, aggVars, finVars, concVars, engVars, callVars>>

Call(fn) ==
    /\ Len(invocations) < MaxInvocations
    /\ \E args \in RepeatArguments(fn) :
          invocations' =
              Append(invocations,
                     [fn |-> fn, args |-> args,
                      result |-> Invoke(fn, args, configuration)])
    /\ configuration' = ConfigurationAfter(fn, configuration)
    /\ RepeatFrame

RepeatScoreFromPercentile == Call("score_from_percentile")
RepeatAggregateCategory == Call("aggregate_category")
RepeatApplyAllAdjustments == Call("apply_all_adjustments")
RepeatCalculateFinalScore == Call("calculate_final_score")

NextRepeat ==
    \/ RepeatScoreFromPercentile
    \/ RepeatAggregateCategory
    \/ RepeatApplyAllAdjustments
    \/ RepeatCalculateFinalScore

SpecRepeat == InitRepeat /\ [][NextRepeat]_vars

SameCall(i, j) ==
    /\ invocations[i].fn = invocations[j].fn
    /\ invocations[i].args = invocations[j].args

----------------------------------------------------------------------------
(* SpecInterpret: one call of FinalScorer.interpret_score or of            *)
(* StockScoringEngine._generate_basic_summary on a final score of one      *)
(* decimal between 0 and 100.5, the largest score calculate_final_score    *)
(* returns for weights the constructor accepts.                            *)

InterpretScores == {100 * k : k \in 0..1005}

(* adjustments.py lines 282-297: the adjusted scores of Test 3.            *)
Test3AdjustedScores ==
    apply_all_adjustments(Test3CategoryScores, Test3RawMetrics).adjusted_scores

InitInterpret ==
    /\ PctIdle
    /\ AggIdle
    /\ FinIdle
    /\ ConcIdle
    /\ EngIdle
    /\ RepIdle
    /\ \/ /\ call_fn = "interpret_score"
          /\ call_args \in [score : InterpretScores]
       \/ /\ call_fn = "_generate_basic_summary"
          /\ call_args \in [ticker : {"AAPL"}, final_score : InterpretScores,
                            category_scores : {Test3AdjustedScores}]
    /\ call_result = None
    /\ call_pc = "ready"

InterpretScore ==
    /\ call_pc = "ready"
    /\ call_fn = "interpret_score"
    /\ call_result' = interpret_score(call_args.score)
    /\ call_pc' = "returned"
    /\ UNCHANGED <<call_fn, call_args>>
    /\ CallFrame

GenerateBasicSummary ==
    /\ call_pc = "ready"
    /\ call_fn = "_generate_basic_summary"
    /\ call_result' = _generate_basic_summary(call_args.ticker, call_args.final_score,
                                              call_args.category_scores)
    /\ call_pc' = "returned"
    /\ UNCHANGED <<call_fn, call_args>>
    /\ CallFrame

NextInterpret == InterpretScore \/ GenerateBasicSummary

SpecInterpret == InitInterpret /\ [][NextInterpret]_vars

(* The bands: a rating with its inclusive lower and exclusive upper bound, *)
(* in points; the outer bounds lie beyond every score.                     *)
Bands ==
    {[rating |-> "Excellent", from |-> 80, below |-> 1000],
     [rating |-> "Good", from |-> 65, below |-> 80],
     [rating |-> "Average", from |-> 50, below |-> 65],
     [rating |-> "Below Average", from |-> 35, below |-> 50],
     [rating |-> "Poor", from |-> 0 - 1000, below |-> 35]}
BandsOf(score) == {b \in Bands : Pts(b.from) =< score /\ score < Pts(b.below)}

(* C24: interpret_score maps every score to exactly one band with          *)
(* inclusive lower bounds (>= 80 Excellent, >= 65 Good, >= 50 Average,     *)
(* >= 35 Below Average, else Poor), and the rating in the engine's summary *)
(* for the same final score is that band's rating, in lower case.          *)
C24_OneBandAndSameInSummary ==
    /\ CallReturned("interpret_score") =>
          /\ Cardinality(BandsOf(call_args.score)) = 1
          /\ \A b \in BandsOf(call_args.score) : call_result.rating = b.rating
    /\ CallReturned("_generate_basic_summary") =>
          \A b \in BandsOf(call_args.final_score) :
              call_result.rating = Lower(b.rating)

(* The lower bound of a band: 65.0 is Good.                                *)
C24_Witness ==
    /\ CallReturned("interpret_score")
    /\ call_args.score = Pts(65)
    /\ call_result.rating = "Good"
    /\ call_result.action = "Buy candidate - monitor key metrics"

----------------------------------------------------------------------------
(* Claims about the range and the direction of the adjustments             *)
(* (SpecAdjust)                                                            *)

NonNegativeRaw(raw_metrics) ==
    \A k \in {"debt_to_equity", "current_ratio"} :
        IsFloat(Get(raw_metrics, k)) => raw_metrics[k].val >= 0
RuleReturned ==
    /\ call_pc = "returned"
    /\ call_fn \in {"adjust_valuation_for_growth", "adjust_risk_for_liquidity",
                    "adjust_profitability_for_growth_stage"}
(* The score a single rule was called with.                                *)
RuleEnteringScore ==
    CASE call_fn = "adjust_valuation_for_growth" -> call_args.valuation_score
      [] call_fn = "adjust_risk_for_liquidity" -> call_args.risk_score
      [] call_fn = "adjust_profitability_for_growth_stage" -> call_args.profitability_score

(* C29: for category scores in [0,100] or absent and non-negative raw      *)
(* debt_to_equity and current_ratio, every adjusted score that             *)
(* apply_all_adjustments returns is in [0,100]; an adjustment never lowers *)
(* valuation or profitability and never raises risk.  The same holds for   *)
(* each rule called on its own.                                            *)
C29_AdjustedInRangeAndDirection ==
    /\ (CallReturned("apply_all_adjustments") /\ NonNegativeRaw(call_args.raw_metrics)) =>
          LET adjusted == call_result.adjusted_scores.at
          IN  /\ \A cat \in DOMAIN adjusted : InUnitPercent(adjusted[cat])
              /\ adjusted["valuation"] >= EnteringScore("valuation")
              /\ adjusted["profitability"] >= EnteringScore("profitability")
              /\ adjusted["risk"] =< EnteringScore("risk")
    /\ (RuleReturned /\ NonNegativeRaw(call_args.raw_metrics)) =>
          /\ InUnitPercent(call_result[1])
          /\ IF call_fn = "adjust_risk_for_liquidity"
             THEN call_result[1] =< RuleEnteringScore
             ELSE call_result[1] >= RuleEnteringScore

(* The floor of the risk rule is reached in a full pass: risk 10 with      *)
(* debt 10.0 and current ratio 0.8 is lowered to 0, not to -15, while      *)
(* valuation and profitability are raised.                                 *)
C29_Witness ==
    /\ CallReturned("apply_all_adjustments")
    /\ EnteringScore("risk") = Pts(10)
    /\ RiskRuleFires
    /\ SeverityPenalty(call_args.raw_metrics) > Pts(25)
    /\ ValuationRuleFires
    /\ ProfitabilityRuleFires
    /\ call_result.adjusted_scores.at["risk"] = 0
    /\ call_result.adjusted_scores.at["valuation"] = 64990
    /\ call_result.adjusted_scores.at["profitability"] > EnteringScore("profitability")

(* C30: for category scores in [0,100] the valuation-for-growth bonus is   *)
(* at most 15, so its 20-point cap is never reached, the adjusted          *)
(* valuation stays below 65 and the adjusted profitability below 55, so    *)
(* neither min(..., 100) changes the result.                               *)
C30_UpwardCapsNeverBind ==
    /\ (CallReturned("adjust_valuation_for_growth") /\ ~IsNone(call_result[2])) =>
          /\ call_result[2].adjustment =< Pts(15)
          /\ 2 * call_result[2].adjustment = call_args.growth_score - Pts(70)
          /\ call_result[1] < Pts(65)
          /\ call_result[1] = call_args.valuation_score + call_result[2].adjustment
    /\ (CallReturned("adjust_profitability_for_growth_stage") /\ ~IsNone(call_result[2])) =>
          /\ call_result[1] < Pts(55)
          /\ call_result[1] = call_args.profitability_score + call_result[2].adjustment

(* The largest bonus: valuation 49.99 with growth 100 becomes 64.99.       *)
C30_Witness ==
    /\ CallReturned("adjust_valuation_for_growth")
    /\ call_args.valuation_score = 49990
    /\ call_args.growth_score = Pts(100)
    /\ call_result[2].adjustment = Pts(15)
    /\ call_result[1] = 64990

====
